---------------------------- MODULE Spec2Model ----------------------------
(***************************************************************************)
(* A model of the ITCH replay server (src/itch_replay_server.c) and of the *)
(* framing loop of the ITCH client (src/itch_client.c).                    *)
(*                                                                         *)
(* Bytes are the naturals 0..255.  A 64-bit unsigned value is kept as three *)
(* limbs <<top16, hi24, lo24>> (value = top16*2^48 + hi24*2^24 + lo24), so  *)
(* that every intermediate result stays inside TLC's 32-bit integers.      *)
(***************************************************************************)
EXTENDS Integers, Sequences, FiniteSets, TLC

\* -------------------------------------------------------------------------
\* Bounds of the model
\* -------------------------------------------------------------------------

\* Longest source stream, counted in items (a message or a stray byte).
MaxItems == 3

\* -------------------------------------------------------------------------
\* Program constants
\* -------------------------------------------------------------------------

BUFFER_SIZE == 64 * 1024

MAX_CLIENTS == 32

\* DEFAULT_SPEED 1.0
DEFAULT_SPEED == 1

\* The sleep cap, 1000000000ULL nanoseconds.
SLEEP_CAP_NS == 1000000000

\* The threshold under which no sleep is made, 1000 nanoseconds.
SLEEP_MIN_NS == 1000

\* -------------------------------------------------------------------------
\* Codec
\* -------------------------------------------------------------------------

\* Mutant: a table that knows the types 'S' and 'W' only.
ITCH_MSG_LENGTHS_SW == [b \in 0..255 |-> IF b = 83 \/ b = 87 THEN 12 ELSE 0]

\* ITCH_MSG_LENGTHS[256]: designated initialisers, every other entry 0.
ITCH_MSG_LENGTHS ==
  [b \in 0..255 |->
     CASE b = 83 -> 12   \* 'S'
       [] b = 82 -> 39   \* 'R'
       [] b = 72 -> 25   \* 'H'
       [] b = 89 -> 20   \* 'Y'
       [] b = 76 -> 26   \* 'L'
       [] b = 86 -> 35   \* 'V'
       [] b = 87 -> 12   \* 'W'
       [] b = 75 -> 28   \* 'K'
       [] b = 65 -> 36   \* 'A'
       [] b = 70 -> 40   \* 'F'
       [] b = 69 -> 31   \* 'E'
       [] b = 67 -> 36   \* 'C'
       [] b = 88 -> 23   \* 'X'
       [] b = 68 -> 19   \* 'D'
       [] b = 85 -> 35   \* 'U'
       [] b = 80 -> 44   \* 'P'
       [] b = 81 -> 40   \* 'Q'
       [] b = 66 -> 19   \* 'B'
       [] b = 73 -> 50   \* 'I'
       [] b = 78 -> 20   \* 'N'
       [] OTHER -> 0]

get_message_length(msg_type) == ITCH_MSG_LENGTHS[msg_type]

\* Mutant: the switch gives 18 for 'D' (Order Delete is 19 bytes long).
message_length_short_D(t) ==
  CASE t = 83 -> 12 [] t = 68 -> 18 [] OTHER -> 0

\* message_length_by_type of the parser: a switch with default 0.
message_length_by_type(t) ==
  CASE t = 83 -> 12 [] t = 82 -> 39 [] t = 72 -> 25 [] t = 89 -> 20
    [] t = 76 -> 26 [] t = 86 -> 35 [] t = 87 -> 12 [] t = 75 -> 28
    [] t = 65 -> 36 [] t = 70 -> 40 [] t = 69 -> 31 [] t = 67 -> 36
    [] t = 88 -> 23 [] t = 68 -> 19 [] t = 85 -> 35 [] t = 80 -> 44
    [] t = 81 -> 40 [] t = 66 -> 19 [] t = 73 -> 50 [] t = 78 -> 20
    [] OTHER -> 0

get_itch_message_length(msg_type) == message_length_by_type(msg_type)

\* The eight bytes of a 64-bit value, most significant first, as limbs.
Limbs(d) ==
  << d[1] * 256 + d[2],
     d[3] * 65536 + d[4] * 256 + d[5],
     d[6] * 65536 + d[7] * 256 + d[8] >>

\* The limbs of a 64-bit value as its eight bytes, most significant first.
Digits(v) ==
  << v[1] \div 256, v[1] % 256,
     v[2] \div 65536, (v[2] \div 256) % 256, v[2] % 256,
     v[3] \div 65536, (v[3] \div 256) % 256, v[3] % 256 >>

\* __builtin_bswap64 on the byte image of a value.
bswap64(image) == [i \in 1..8 |-> image[9 - i]]

\* Mutant: the shift by 16 is left out.
read_timestamp_unshifted(b) == Limbs([i \in 1..8 |-> b[i]])

\* read_timestamp(b): memcpy of 8 bytes into a little-endian uint64_t (the
\* memory image is the value least significant byte first), bswap64, >> 16.
read_timestamp(b) ==
  LET image   == [i \in 1..8 |-> b[i]]
      swapped == bswap64(image)
      \* value of a little-endian image, most significant byte first
      value   == [i \in 1..8 |-> swapped[9 - i]]
      shifted == <<0, 0>> \o SubSeq(value, 1, 6)
  IN  Limbs(shifted)

\* parse_timestamp(b) of the parser: the same memcpy of 8 bytes, bswap64 and
\* shift right by 16.
parse_timestamp(b) ==
  LET image   == [i \in 1..8 |-> b[i]]
      swapped == bswap64(image)
      value   == [i \in 1..8 |-> swapped[9 - i]]
      shifted == <<0, 0>> \o SubSeq(value, 1, 6)
  IN  Limbs(shifted)

\* write_timestamp(b, ts) of the generator: ts << 16, bswap64, memcpy of the
\* first 6 bytes of the little-endian image.
write_timestamp(ts) ==
  LET d       == Digits(ts)
      shifted == SubSeq(d, 3, 8) \o <<0, 0>>
      image   == [i \in 1..8 |-> shifted[9 - i]]
      swapped == bswap64(image)
  IN  SubSeq(swapped, 1, 6)

\* write_u16(b, v)
write_u16(v) == << (v \div 256) % 256, v % 256 >>

\* Comparison and difference of 64-bit values held as limbs.
U64Zero == <<0, 0, 0>>

U64Gt(a, b) ==
  \/ a[1] > b[1]
  \/ a[1] = b[1] /\ a[2] > b[2]
  \/ a[1] = b[1] /\ a[2] = b[2] /\ a[3] > b[3]

\* a - b modulo 2^64.
U64Sub(a, b) ==
  LET l3 == a[3] - b[3]
      c3 == IF l3 < 0 THEN 1 ELSE 0
      l2 == a[2] - b[2] - c3
      c2 == IF l2 < 0 THEN 1 ELSE 0
      l1 == a[1] - b[1] - c2
  IN  << l1 % 65536, l2 % 16777216, l3 % 16777216 >>

\* A double of value mant * 2^exp; speed_multiplier is one (atof of the
\* argument, or DEFAULT_SPEED).
Double(mant, exp) == [mant |-> mant, exp |-> exp]

\* delta_ns / speed_multiplier for a positive speed mant * 2^exp (mant in
\* 1..127, exp 0 or -24): the whole part of the quotient as four limbs
\* <<q0, q1, q2, q3>> of 24 bits, q0 the most significant.  delta_ns is below
\* 2^48, so its conversion to double and the scaling by 2^24 are exact, and a
\* quotient of at most 10^9 is far enough from the next whole number for the
\* rounding of the division not to reach it.
Quotient(delta, m) ==
  LET d  == IF m.exp = 0 THEN <<0>> \o delta ELSE delta \o <<0>>
      q0 == d[1] \div m.mant
      r0 == d[1] % m.mant
      q1 == (r0 * 16777216 + d[2]) \div m.mant
      r1 == (r0 * 16777216 + d[2]) % m.mant
      q2 == (r1 * 16777216 + d[3]) \div m.mant
      r2 == (r1 * 16777216 + d[3]) % m.mant
      q3 == (r2 * 16777216 + d[4]) \div m.mant
  IN  <<q0, q1, q2, q3>>

\* 2^64 - 1.
U64Max == <<65535, 16777215, 16777215>>

\* (uint64_t)x for a double x: the whole part when it is below 2^64; when it
\* is not the conversion is undefined, and yields 0 with the x86-64
\* instruction sequence and 2^64 - 1 with a saturating conversion.
ToU64(q) ==
  IF q[1] = 0 /\ q[2] < 65536 THEN {<<q[2], q[3], q[4]>>}
  ELSE {U64Zero, U64Max}

\* Mutant: the cap is left out for a request of up to two seconds.
CapAtTwoSeconds(v) ==
  IF v[1] > 0 \/ v[2] >= 120 THEN SLEEP_CAP_NS ELSE v[2] * 16777216 + v[3]

\* Lines 204-206: the cap at one second (10^9 = 59 * 2^24 + 10144256).
Cap(v) ==
  IF v[1] > 0 \/ v[2] > 59 \/ (v[2] = 59 /\ v[3] > 10144256)
    THEN SLEEP_CAP_NS ELSE v[2] * 16777216 + v[3]

\* Lines 201-206: (uint64_t)(delta_ns / speed_multiplier) and the cap; the
\* values sleep_ns may take.
CappedSleep(delta, m) == {Cap(v) : v \in ToU64(Quotient(delta, m))}


\* -------------------------------------------------------------------------
\* Source streams
\* -------------------------------------------------------------------------

\* 34200000000000 ns (9:30 AM), the generator's first timestamp, as limbs.
TS_OPEN == <<0, 2038478, 14282752>>

\* TS_OPEN + 1000000 ns, the generator's second timestamp.
TS_NEXT == <<0, 2038478, 15282752>>

\* A message as the generator lays it out: memset 0, type, stock locate 1,
\* tracking number 0, timestamp, and the body filled with one byte.
Message(type, ts, fill) ==
  <<type>> \o write_u16(1) \o write_u16(0) \o write_timestamp(ts)
           \o [i \in 1..(get_message_length(type) - 11) |-> fill]

\* System Event 'S' with event code 'O' (12 bytes); Order Delete 'D' whose
\* order reference is filled with the byte 'S' (19 bytes).
MsgS == Message(83, TS_OPEN, 79)

MsgD == Message(68, TS_NEXT, 83)

\* A byte outside the type table (0xFF).
StrayByte == <<255>>

Items == {MsgS, MsgD, StrayByte}

RECURSIVE Flatten(_)
Flatten(ss) == IF ss = <<>> THEN <<>> ELSE Head(ss) \o Flatten(Tail(ss))

ItemSeqs == UNION {[1..n -> Items] : n \in 0..MaxItems}

\* Streams made of whole items.
WholeStreams == {Flatten(ss) : ss \in ItemSeqs}

\* Streams made of whole messages only.
MessageStreams ==
  {Flatten(ss) : ss \in UNION {[1..n -> {MsgS, MsgD}] : n \in 0..MaxItems}}

\* Every stream a file can hold: whole items, possibly cut short.
Files == UNION {{SubSeq(s, 1, k) : k \in 0..Len(s)} : s \in WholeStreams}

\* -------------------------------------------------------------------------
\* State
\* -------------------------------------------------------------------------

VARIABLES
  file,             \* the bytes of the input file
  fpos,             \* bytes of the file already returned by reads
  buffer,           \* buffer[0 .. buffer_used): the resident bytes
  prev_timestamp,   \* replay_itch_file local
  current_timestamp,\* replay_itch_file local (loop body)
  messages_sent,    \* replay_itch_file local
  total_bytes,      \* replay_itch_file local
  speed_multiplier, \* config.speed_multiplier
  pc,               \* position of the main thread
  bi,               \* loop index i of broadcast_message / of the cleanup loop
  clients,          \* clients[MAX_CLIENTS]
  clients_mutex,    \* owner of clients_mutex, or "free"
  server_running,   \* the volatile flag
  server_fd,        \* the listening socket: "open" or "closed"
  apc,              \* position of the accept thread
  client_fd,        \* accept_clients_thread local
  nconn,            \* connections accepted so far
  conn,             \* per accepted connection: the socket and what was done to it
  bcast,            \* the broadcast_message call in progress (or the last one)
  emitted,          \* messages handed to broadcast_message, in order
  diag,             \* diagnostics printed by the replay loop, in order
  slept,            \* nanoseconds of the last nsleep call (0: none yet)
  naps,             \* per message that reached the pacing: the sleep made (0: none)
  wire,             \* the bytes the server writes to the client's socket
  wpos,             \* bytes of the wire already returned by recv
  cbuffer,          \* the client's resident bytes
  cpc,              \* position of the client
  stats,            \* the client's stats_t counters
  cframed,          \* messages the client recognised, in order
  cdiag,            \* diagnostics printed by the client, in order
  report,           \* the per-type breakdown print_stats has printed
  pmsg,             \* the array handed to parse_itch_message
  plen,             \* the len handed to parse_itch_message
  ppc,              \* position of the parser's caller
  accessed,         \* indices of msg the call has read
  parsed            \* what the decoder of the call has decoded

framer_vars == <<file, fpos, buffer, prev_timestamp, current_timestamp,
                 messages_sent, total_bytes, speed_multiplier, emitted, diag,
                 slept, naps>>

table_vars == <<clients, clients_mutex>>

accept_vars == <<apc, client_fd, nconn>>

client_vars == <<wire, wpos, cbuffer, cpc, stats, cframed, cdiag, report>>

parser_vars == <<pmsg, plen, ppc, accessed, parsed>>

vars == <<framer_vars, pc, bi, table_vars, server_running, server_fd,
          accept_vars, conn, bcast, client_vars, parser_vars>>

buffer_used == Len(buffer)

Min(a, b) == IF a < b THEN a ELSE b

Slots == 0..(MAX_CLIENTS - 1)

\* memset(clients, 0, sizeof(clients))
NoClients == [i \in Slots |-> [socket_fd |-> 0, address |-> 0, active |-> 0]]

\* -------------------------------------------------------------------------
\* Byte sources
\* -------------------------------------------------------------------------

\* fread / gzread on a file: the whole request unless the file ends first.
FullRead(request, remaining) == {Min(request, remaining)}

\* A source that may return any non-empty part of what is left; 0 when
\* nothing is left, or when no byte is asked for.
ShortRead(request, remaining) ==
  IF remaining = 0 \/ request <= 0 THEN {0} ELSE 1..Min(request, remaining)

\* -------------------------------------------------------------------------
\* The replay loop of replay_itch_file
\* -------------------------------------------------------------------------

Diag(kind, byte) == <<kind, byte>>

\* What a read of the source may return: "file" is fread / gzread on a file,
\* "stream" a source that returns short reads.
Read(source, request, remaining) ==
  IF source = "file" THEN FullRead(request, remaining)
  ELSE ShortRead(request, remaining)

\* The count handed to fread / gzread with the address buffer + buffer_used
\* (lines 141, 143, 177, 181).
RefillRequest(used) == BUFFER_SIZE - used

\* Lines 135-160: loop test, refill below half capacity, end-of-file test.
ReplayRefill(source) ==
  /\ pc = "loop"
  /\ IF server_running = 0
       THEN /\ pc' = "exit"
            /\ UNCHANGED <<fpos, buffer, diag>>
       ELSE IF buffer_used < BUFFER_SIZE \div 2
         THEN \E bytes_read \in Read(source, RefillRequest(buffer_used), Len(file) - fpos) :
                IF bytes_read = 0 /\ buffer_used = 0
                  THEN /\ diag' = Append(diag, Diag("end_of_file", 0))
                       /\ pc' = "exit"
                       /\ UNCHANGED <<fpos, buffer>>
                  ELSE /\ buffer' = buffer \o SubSeq(file, fpos + 1, fpos + bytes_read)
                       /\ fpos' = fpos + bytes_read
                       /\ pc' = IF Len(buffer') < 1 THEN "exit" ELSE "frame"
                       /\ UNCHANGED diag
         ELSE /\ pc' = IF buffer_used < 1 THEN "exit" ELSE "frame"
              /\ UNCHANGED <<fpos, buffer, diag>>
  /\ UNCHANGED <<file, prev_timestamp, current_timestamp, messages_sent,
                 total_bytes, speed_multiplier, emitted, slept, naps, bi,
                 table_vars, server_running, server_fd, accept_vars, conn,
                 bcast, client_vars, parser_vars>>

\* Mutant: the byte after the unknown one is dropped with it.
SkipTwoBytes(buf) == SubSeq(buf, 3, Len(buf))

\* Mutant: the unknown byte is reported and left where it is.
SkipNoByte(buf) == buf

\* memmove(buffer, buffer + 1, buffer_used - 1); buffer_used--
SkipByte(buf) == SubSeq(buf, 2, Len(buf))

\* Lines 162-171: unknown type byte.
ReplayUnknown ==
  /\ pc = "frame"
  /\ get_message_length(buffer[1]) = 0
  /\ diag' = Append(diag, Diag("unknown_type", buffer[1]))
  /\ buffer' = SkipByte(buffer)
  /\ pc' = "loop"
  /\ UNCHANGED <<file, fpos, prev_timestamp, current_timestamp,
                 messages_sent, total_bytes, speed_multiplier, emitted, slept, naps,
                 bi, table_vars, server_running, server_fd, accept_vars, conn,
                 bcast, client_vars, parser_vars>>

\* Mutant: a message one byte short passes for complete.
IncompleteByTwo(used, msg_len) == used < msg_len - 1

\* The test of lines 174 and 186: buffer_used < msg_len.
Incomplete(used, msg_len) == used < msg_len

\* Lines 173-190: the message is not complete; one more read.
ReplayWait(source) ==
  /\ pc = "frame"
  /\ get_message_length(buffer[1]) # 0
  /\ Incomplete(buffer_used, get_message_length(buffer[1]))
  /\ \E bytes_read \in Read(source, RefillRequest(buffer_used), Len(file) - fpos) :
       IF bytes_read <= 0
         THEN /\ pc' = "exit"
              /\ UNCHANGED <<fpos, buffer, diag>>
         ELSE /\ buffer' = buffer \o SubSeq(file, fpos + 1, fpos + bytes_read)
              /\ fpos' = fpos + bytes_read
              /\ IF Incomplete(Len(buffer'), get_message_length(buffer[1]))
                   THEN /\ diag' = Append(diag, Diag("incomplete_message", 0))
                        /\ pc' = "exit"
                   ELSE /\ pc' = "pace"
                        /\ UNCHANGED diag
  /\ UNCHANGED <<file, prev_timestamp, current_timestamp, messages_sent,
                 total_bytes, speed_multiplier, emitted, slept, naps, bi,
                 table_vars, server_running, server_fd, accept_vars, conn,
                 bcast, client_vars, parser_vars>>

\* Line 174 not taken: the message is complete.
ReplayComplete ==
  /\ pc = "frame"
  /\ get_message_length(buffer[1]) # 0
  /\ ~Incomplete(buffer_used, get_message_length(buffer[1]))
  /\ pc' = "pace"
  /\ UNCHANGED <<framer_vars, bi, table_vars, server_running, server_fd,
                 accept_vars, conn, bcast, client_vars, parser_vars>>

\* The eight bytes read_timestamp copies from buffer + 5: resident bytes, or
\* whatever the array holds past buffer_used.
StaleBytes == {0, 255}

TimestampWindows(buf) ==
  {[i \in 1..8 |-> IF 5 + i <= Len(buf) THEN buf[5 + i] ELSE stale[i]] :
     stale \in [1..8 -> StaleBytes]}

\* Mutant: the test current_timestamp > prev_timestamp is left out.
SleepForAnyOrder(prev, current, m) ==
  IF U64Gt(prev, U64Zero) /\ m.mant > 0
    THEN {IF sleep_ns > SLEEP_MIN_NS THEN sleep_ns ELSE 0 :
            sleep_ns \in CappedSleep(U64Sub(current, prev), m)}
    ELSE {0}

\* Lines 198-211: the sleeps that may be made before a message, 0 when none
\* is made.
SleepFor(prev, current, m) ==
  IF U64Gt(prev, U64Zero) /\ U64Gt(current, prev) /\ m.mant > 0
    THEN {IF sleep_ns > SLEEP_MIN_NS THEN sleep_ns ELSE 0 :
            sleep_ns \in CappedSleep(U64Sub(current, prev), m)}
    ELSE {0}

\* Everything the replay loop leaves alone while it frames and paces.
outside_replay == <<bi, table_vars, server_running, server_fd, accept_vars,
                    conn, bcast, client_vars, parser_vars>>

\* Lines 192-211: decode the timestamp, sleep for the scaled delta.
ReplayPace ==
  /\ pc = "pace"
  /\ \E window \in TimestampWindows(buffer) :
       /\ current_timestamp' =
            IF get_message_length(buffer[1]) >= 11
              THEN read_timestamp(window) ELSE U64Zero
       /\ \E sleep_ns \in SleepFor(prev_timestamp, current_timestamp',
                                    speed_multiplier) :
            /\ slept' = sleep_ns
            /\ naps' = Append(naps, sleep_ns)
  /\ pc' = "broadcast"
  /\ UNCHANGED <<file, fpos, buffer, prev_timestamp, messages_sent,
                 total_bytes, speed_multiplier, emitted, diag, outside_replay>>

\* -------------------------------------------------------------------------
\* broadcast_message
\* -------------------------------------------------------------------------

\* The loop of lines 90-91: the next slot at or after i with active set, or
\* MAX_CLIENTS when there is none.
NextActive(cl, i) ==
  IF \E j \in Slots : j >= i /\ cl[j].active # 0
    THEN CHOOSE j \in Slots :
           /\ j >= i /\ cl[j].active # 0
           /\ \A k \in Slots : (k >= i /\ cl[k].active # 0) => j <= k
    ELSE MAX_CLIENTS

\* What send may return for len bytes: all of them, a part of them (here the
\* first byte only), or -1 with errno set.
SentCounts(len) == {1, len}

Errnos == {"EPIPE", "ECONNRESET", "EAGAIN"}

SendResults(len) ==
  {[sent |-> n, errno |-> "none"] : n \in SentCounts(len)}
    \cup {[sent |-> -1, errno |-> e] : e \in Errnos}

\* Mutant: the loop is left after a failed send.
AfterSendBreak(cl, i, r) ==
  IF r.sent < 0 THEN MAX_CLIENTS ELSE NextActive(cl, i + 1)

\* Lines 90 and 103: the loop goes on to the next active slot whatever send
\* returned for slot i.
AfterSend(cl, i, r) == NextActive(cl, i + 1)

\* Lines 94-102: whether the slot is retired after send returned r.
Retires(r) == r.sent < 0 /\ (r.errno = "EPIPE" \/ r.errno = "ECONNRESET")

\* Lines 97-98 applied to slot i of the table.
RetireSlot(cl, i) == [cl EXCEPT ![i].active = 0]

\* The message at the front of the buffer.
FrontMessage == SubSeq(buffer, 1, get_message_length(buffer[1]))

\* Mutant: the broadcast enters the table without waiting for clients_mutex.
BroadcastLockNoMutex ==
  /\ pc = "broadcast"
  /\ clients_mutex' = "replay"
  /\ bi' = NextActive(clients, 0)
  /\ emitted' = Append(emitted, FrontMessage)
  /\ bcast' = [start |-> clients, tried |-> {}, errs |-> {}]
  /\ pc' = "send"
  /\ UNCHANGED <<file, fpos, buffer, prev_timestamp, current_timestamp,
                 messages_sent, total_bytes, speed_multiplier, diag, slept, naps,
                 clients, server_running, server_fd, accept_vars, conn,
                 client_vars, parser_vars>>

\* Line 88.
BroadcastLock ==
  /\ pc = "broadcast"
  /\ clients_mutex = "free"
  /\ clients_mutex' = "replay"
  /\ bi' = NextActive(clients, 0)
  /\ emitted' = Append(emitted, FrontMessage)
  /\ bcast' = [start |-> clients, tried |-> {}, errs |-> {}]
  /\ pc' = "send"
  /\ UNCHANGED <<file, fpos, buffer, prev_timestamp, current_timestamp,
                 messages_sent, total_bytes, speed_multiplier, diag, slept, naps,
                 clients, server_running, server_fd, accept_vars, conn,
                 client_vars, parser_vars>>

\* Lines 90-103, one active slot: send, and the handling of its result.
BroadcastSend ==
  /\ pc = "send"
  /\ bi < MAX_CLIENTS
  /\ LET fd  == clients[bi].socket_fd
         msg == FrontMessage
     IN  \E r \in SendResults(Len(msg)) :
           /\ conn' = [conn EXCEPT
                 ![fd].offered = Append(@, msg),
                 ![fd].rcvd = IF r.sent > 0 THEN @ \o SubSeq(msg, 1, r.sent) ELSE @,
                 ![fd].errors = IF r.sent < 0 THEN @ + 1 ELSE @,
                 ![fd].short = IF 0 <= r.sent /\ r.sent < Len(msg) THEN @ + 1 ELSE @,
                 ![fd].closes = IF Retires(r) THEN @ + 1 ELSE @]
           /\ clients' = IF Retires(r) THEN RetireSlot(clients, bi) ELSE clients
           /\ bcast' = [bcast EXCEPT
                 !.tried = @ \cup {bi},
                 !.errs = IF r.sent < 0 THEN @ \cup {<<bi, r.errno>>} ELSE @]
           /\ bi' = AfterSend(clients, bi, r)
  /\ UNCHANGED <<framer_vars, pc, clients_mutex, server_running, server_fd,
                 accept_vars, client_vars, parser_vars>>

\* Lines 105-106.
BroadcastUnlock ==
  /\ pc = "send"
  /\ bi = MAX_CLIENTS
  /\ clients_mutex' = "free"
  /\ pc' = "consume"
  /\ UNCHANGED <<framer_vars, bi, clients, server_running, server_fd,
                 accept_vars, conn, bcast, client_vars, parser_vars>>

\* Mutant: the move starts one byte early, so the last byte of the message
\* stays at the front of the buffer.
RemoveMessageOffByOne(buf, msg_len) == SubSeq(buf, msg_len, Len(buf))

\* memmove(buffer, buffer + msg_len, buffer_used - msg_len); buffer_used -= msg_len
RemoveMessage(buf, msg_len) == SubSeq(buf, msg_len + 1, Len(buf))

\* Lines 216-227.
ReplayConsume ==
  /\ pc = "consume"
  /\ messages_sent' = messages_sent + 1
  /\ total_bytes' = total_bytes + get_message_length(buffer[1])
  /\ prev_timestamp' = current_timestamp
  /\ buffer' = RemoveMessage(buffer, get_message_length(buffer[1]))
  /\ pc' = "loop"
  /\ UNCHANGED <<file, fpos, current_timestamp, speed_multiplier, emitted,
                 diag, slept, naps, outside_replay>>

\* -------------------------------------------------------------------------
\* main: start of the replay and shutdown
\* -------------------------------------------------------------------------

\* Lines 368-371 and 118-133: the sleep(2) ends and the file is opened.
MainStartReplay ==
  /\ pc = "sleep"
  /\ pc' = "loop"
  /\ UNCHANGED <<framer_vars, outside_replay>>

\* Lines 230-238 and 374: the file is closed, server_running = 0.
MainStop ==
  /\ pc = "exit"
  /\ server_running' = 0
  /\ pc' = "join"
  /\ UNCHANGED <<framer_vars, bi, table_vars, server_fd, accept_vars, conn,
                 bcast, client_vars, parser_vars>>

\* Line 375: pthread_join returns once the accept thread has returned.
MainJoin ==
  /\ pc = "join"
  /\ apc = "returned"
  /\ pc' = "cleanup"
  /\ UNCHANGED <<framer_vars, outside_replay>>

\* Line 377.
CleanupLock ==
  /\ pc = "cleanup"
  /\ clients_mutex = "free"
  /\ clients_mutex' = "main"
  /\ bi' = NextActive(clients, 0)
  /\ pc' = "closing"
  /\ UNCHANGED <<framer_vars, clients, server_running, server_fd,
                 accept_vars, conn, bcast, client_vars, parser_vars>>

\* Lines 378-382, one active slot: close its socket (active stays set).
CleanupClose ==
  /\ pc = "closing"
  /\ bi < MAX_CLIENTS
  /\ conn' = [conn EXCEPT ![clients[bi].socket_fd].closes = @ + 1]
  /\ bi' = NextActive(clients, bi + 1)
  /\ UNCHANGED <<framer_vars, pc, table_vars, server_running, server_fd,
                 accept_vars, bcast, client_vars, parser_vars>>

\* Lines 383-388.
CleanupUnlock ==
  /\ pc = "closing"
  /\ bi = MAX_CLIENTS
  /\ clients_mutex' = "free"
  /\ server_fd' = "closed"
  /\ pc' = "done"
  /\ UNCHANGED <<framer_vars, bi, clients, server_running, accept_vars,
                 conn, bcast, client_vars, parser_vars>>

\* -------------------------------------------------------------------------
\* accept_clients_thread
\* -------------------------------------------------------------------------

\* Line 245: the loop test.
AcceptLoopTest ==
  /\ apc = "while"
  /\ apc' = IF server_running # 0 THEN "accept" ELSE "returned"
  /\ UNCHANGED <<framer_vars, pc, bi, table_vars, server_running, server_fd,
                 client_fd, nconn, conn, bcast, client_vars, parser_vars>>

\* A socket as accept returns it: nothing sent, not closed, not attached.
FreshConn == [closes |-> 0, rcvd |-> <<>>, offered |-> <<>>, errors |-> 0,
              short |-> 0, attach |-> -1, early |-> FALSE]

\* Line 249: accept returns a new connection; connections are numbered in
\* the order they are accepted.
AcceptConnection(limit) ==
  /\ apc = "accept"
  /\ nconn < limit
  /\ nconn' = nconn + 1
  /\ client_fd' = nconn + 1
  /\ conn' = [c \in 1..(nconn + 1) |-> IF c <= nconn THEN conn[c] ELSE FreshConn]
  /\ apc' = "lock"
  /\ UNCHANGED <<framer_vars, pc, bi, table_vars, server_running, server_fd,
                 bcast, client_vars, parser_vars>>

\* Lines 250-254: accept fails (EINTR or another error); continue.
AcceptError ==
  /\ apc = "accept"
  /\ client_fd' = -1
  /\ apc' = "while"
  /\ UNCHANGED <<framer_vars, pc, bi, table_vars, server_running, server_fd,
                 nconn, conn, bcast, client_vars, parser_vars>>

\* Mutant: the table is entered without waiting for clients_mutex.
AcceptLockNoMutex ==
  /\ apc = "lock"
  /\ clients_mutex' = "accept"
  /\ apc' = "assign"
  /\ UNCHANGED <<framer_vars, pc, bi, clients, server_running, server_fd,
                 client_fd, nconn, conn, bcast, client_vars, parser_vars>>

\* Line 257.
AcceptLock ==
  /\ apc = "lock"
  /\ clients_mutex = "free"
  /\ clients_mutex' = "accept"
  /\ apc' = "assign"
  /\ UNCHANGED <<framer_vars, pc, bi, clients, server_running, server_fd,
                 client_fd, nconn, conn, bcast, client_vars, parser_vars>>

\* Mutant: the scan is not made; slot 0 is taken whatever it holds.
FirstSlotAlways(cl) == 0

\* Mutant: a full table yields slot 0 in place of -1.
FindFreeSlotOrFirst(cl) ==
  IF \E i \in Slots : cl[i].active = 0
    THEN CHOOSE i \in Slots :
           cl[i].active = 0 /\ \A j \in Slots : cl[j].active = 0 => i <= j
    ELSE 0

\* Lines 258-264: the first slot that is not active, or -1.
FindFreeSlot(cl) ==
  IF \E i \in Slots : cl[i].active = 0
    THEN CHOOSE i \in Slots :
           cl[i].active = 0 /\ \A j \in Slots : cl[j].active = 0 => i <= j
    ELSE -1

\* Lines 266-275: assign the slot, or close the new socket.
AcceptAssign ==
  /\ apc = "assign"
  /\ LET slot == FindFreeSlot(clients)
     IN  IF slot >= 0
           THEN /\ clients' = [clients EXCEPT
                      ![slot] = [socket_fd |-> client_fd,
                                 address |-> client_fd,
                                 active |-> 1]]
                /\ conn' = [conn EXCEPT
                      ![client_fd].attach = Len(emitted),
                      ![client_fd].early = (pc = "sleep")]
           ELSE /\ conn' = [conn EXCEPT ![client_fd].closes = @ + 1]
                /\ UNCHANGED clients
  /\ apc' = "unlock"
  /\ UNCHANGED <<framer_vars, pc, bi, clients_mutex, server_running,
                 server_fd, client_fd, nconn, bcast, client_vars, parser_vars>>

\* Line 277.
AcceptUnlock ==
  /\ apc = "unlock"
  /\ clients_mutex' = "free"
  /\ apc' = "while"
  /\ UNCHANGED <<framer_vars, pc, bi, clients, server_running, server_fd,
                 client_fd, nconn, conn, bcast, client_vars, parser_vars>>

\* -------------------------------------------------------------------------
\* The client's receive loop (itch_client.c, main)
\* -------------------------------------------------------------------------

server_vars == <<framer_vars, pc, bi, table_vars, server_running, server_fd,
                 accept_vars, conn, bcast>>

\* Mutant: the buffer holds 49 bytes.
RecvCapacitySmall(used) == 49 - used

\* The count handed to recv with the address buffer + buffer_used (line 139).
RecvCapacity(used) == BUFFER_SIZE - used

\* Lines 139-151: recv returns some of the bytes in flight, or 0 once the
\* server has closed the stream and nothing is left.
ClientRecv ==
  /\ cpc = "recv"
  /\ \E bytes_read \in ShortRead(RecvCapacity(Len(cbuffer)), Len(wire) - wpos) :
       IF bytes_read = 0
         THEN /\ cdiag' = Append(cdiag, Diag("server_disconnected", 0))
              /\ cpc' = "done"
              /\ UNCHANGED <<wpos, cbuffer>>
         ELSE /\ cbuffer' = cbuffer \o SubSeq(wire, wpos + 1, wpos + bytes_read)
              /\ wpos' = wpos + bytes_read
              /\ cpc' = "parse"
              /\ UNCHANGED cdiag
  /\ UNCHANGED <<wire, stats, cframed, report, server_vars, parser_vars>>

\* Line 154: the inner loop ends when nothing is resident.
ClientDrained ==
  /\ cpc = "parse"
  /\ Len(cbuffer) = 0
  /\ cpc' = "recv"
  /\ UNCHANGED <<wire, wpos, cbuffer, stats, cframed, cdiag, report,
                 server_vars, parser_vars>>

\* Lines 157-166: unknown type byte.
ClientUnknown ==
  /\ cpc = "parse"
  /\ Len(cbuffer) > 0
  /\ get_itch_message_length(cbuffer[1]) = 0
  /\ cdiag' = Append(cdiag, Diag("unknown_type", cbuffer[1]))
  /\ cbuffer' = SkipByte(cbuffer)
  /\ UNCHANGED <<wire, wpos, cpc, stats, cframed, report, server_vars, parser_vars>>

\* Lines 169-171: the message is not complete; back to recv.
ClientIncomplete ==
  /\ cpc = "parse"
  /\ Len(cbuffer) > 0
  /\ get_itch_message_length(cbuffer[1]) # 0
  /\ Len(cbuffer) < get_itch_message_length(cbuffer[1])
  /\ cpc' = "recv"
  /\ UNCHANGED <<wire, wpos, cbuffer, stats, cframed, cdiag, report,
                 server_vars, parser_vars>>

\* Lines 174-191: count the message and remove it.
ClientMessage ==
  /\ cpc = "parse"
  /\ Len(cbuffer) > 0
  /\ get_itch_message_length(cbuffer[1]) # 0
  /\ Len(cbuffer) >= get_itch_message_length(cbuffer[1])
  /\ LET msg_type == cbuffer[1]
         msg_len  == get_itch_message_length(msg_type)
     IN  /\ stats' = [total_messages   |-> stats.total_messages + 1,
                      total_bytes      |-> stats.total_bytes + msg_len,
                      messages_by_type |->
                        [stats.messages_by_type EXCEPT ![msg_type] = @ + 1]]
         /\ cframed' = Append(cframed, SubSeq(cbuffer, 1, msg_len))
         /\ cbuffer' = RemoveMessage(cbuffer, msg_len)
  /\ UNCHANGED <<wire, wpos, cpc, cdiag, report, server_vars, parser_vars>>

\* -------------------------------------------------------------------------
\* The parser (itch_parser.c)
\* -------------------------------------------------------------------------

\* A read of msg[i]: the byte of the array, or, past the end of the array,
\* whatever the memory holds there.
ByteAt(msg, i, stale) == IF i < Len(msg) THEN msg[i + 1] ELSE stale

\* The n bytes at msg + off.
BytesAt(msg, off, n, stale) ==
  [k \in 1..n |-> ByteAt(msg, off + k - 1, stale)]

\* The indices of a field of n bytes at msg + off.
Field(off, n) == off..(off + n - 1)

\* read_u16(b)
read_u16(b) == (b[1] * 256 + b[2]) % 65536

\* read_ascii(b, len, out, outlen) copies n = min(len, outlen - 1) bytes.
read_ascii_count(len, outlen) == Min(len, outlen - 1)

\* parse_header(msg): msg[0], read_u16 at 1 and at 3, parse_timestamp at 5.
parse_header(msg, stale) ==
  [messageType    |-> ByteAt(msg, 0, stale),
   stockLocate    |-> read_u16(BytesAt(msg, 1, 2, stale)),
   trackingNumber |-> read_u16(BytesAt(msg, 3, 2, stale)),
   timestamp      |-> parse_timestamp(BytesAt(msg, 5, 8, stale))]

\* The indices parse_header reads; the memcpy of parse_timestamp copies the
\* eight bytes msg[5] .. msg[12].
header_reads == Field(0, 1) \cup Field(1, 2) \cup Field(3, 2) \cup Field(5, 8)

\* A decoder that returned at its length test: nothing read, nothing decoded.
TooShort == [reads |-> {}, decoded |-> <<>>]

\* A decoder past its length test: the header, and the body fields, each a
\* pair <<offset, bytes read>>.  The values of the body fields other than
\* the event code of parse_S are not kept, only the bytes read for them.
Decoder(msg, len, min_len, fields, stale) ==
  IF len < min_len THEN TooShort
  ELSE [reads   |-> header_reads \cup UNION {Field(f[1], f[2]) : f \in fields},
        decoded |-> <<parse_header(msg, stale)>>]

\* Mutant: the event code is taken from msg[10].
parse_S_code_at_10(msg, len, stale) ==
  IF len < 12 THEN TooShort
  ELSE [reads   |-> header_reads \cup Field(10, 1),
        decoded |-> <<parse_header(msg, stale), ByteAt(msg, 10, stale)>>]

\* [S] System Event: the header and the event code msg[11].
parse_S(msg, len, stale) ==
  IF len < 12 THEN TooShort
  ELSE [reads   |-> header_reads \cup Field(11, 1),
        decoded |-> <<parse_header(msg, stale), ByteAt(msg, 11, stale)>>]

parse_R(msg, len, stale) ==
  Decoder(msg, len, 39,
          {<<11, read_ascii_count(8, 9)>>, <<19, 1>>, <<20, 1>>, <<21, 4>>,
           <<25, 1>>, <<26, 1>>, <<27, read_ascii_count(2, 3)>>, <<29, 1>>,
           <<30, 1>>, <<31, 1>>, <<32, 1>>, <<33, 1>>, <<34, 4>>, <<38, 1>>},
          stale)

parse_H(msg, len, stale) ==
  Decoder(msg, len, 25,
          {<<11, read_ascii_count(8, 9)>>, <<19, 1>>, <<20, 1>>,
           <<21, read_ascii_count(4, 5)>>}, stale)

parse_A(msg, len, stale) ==
  Decoder(msg, len, 36,
          {<<11, 8>>, <<19, 1>>, <<20, 4>>, <<24, read_ascii_count(8, 9)>>,
           <<32, 4>>}, stale)

parse_F(msg, len, stale) ==
  Decoder(msg, len, 40,
          {<<11, 8>>, <<19, 1>>, <<20, 4>>, <<24, read_ascii_count(8, 9)>>,
           <<32, 4>>, <<36, read_ascii_count(4, 5)>>}, stale)

parse_E(msg, len, stale) ==
  Decoder(msg, len, 31, {<<11, 8>>, <<19, 4>>, <<23, 8>>}, stale)

parse_C(msg, len, stale) ==
  Decoder(msg, len, 36,
          {<<11, 8>>, <<19, 4>>, <<23, 8>>, <<31, 1>>, <<32, 4>>}, stale)

parse_X(msg, len, stale) ==
  Decoder(msg, len, 23, {<<11, 8>>, <<19, 4>>}, stale)

parse_D(msg, len, stale) == Decoder(msg, len, 19, {<<11, 8>>}, stale)

parse_U(msg, len, stale) ==
  Decoder(msg, len, 35, {<<11, 8>>, <<19, 8>>, <<27, 4>>, <<31, 4>>}, stale)

parse_P(msg, len, stale) ==
  Decoder(msg, len, 44,
          {<<11, 8>>, <<19, 1>>, <<20, 4>>, <<24, read_ascii_count(8, 9)>>,
           <<32, 4>>, <<36, 8>>}, stale)

parse_Q(msg, len, stale) ==
  Decoder(msg, len, 40,
          {<<11, 8>>, <<19, read_ascii_count(8, 9)>>, <<27, 4>>, <<31, 8>>,
           <<39, 1>>}, stale)

parse_B(msg, len, stale) == Decoder(msg, len, 19, {<<11, 8>>}, stale)

\* parse_itch_message(msg, len): nothing for len 0; else the type byte msg[0]
\* selects the decoder, and a type with no decoder is printed as unknown.
parse_itch_message(msg, len, stale) ==
  IF len = 0 THEN TooShort
  ELSE LET type == ByteAt(msg, 0, stale)
           d == CASE type = 83 -> parse_S(msg, len, stale)
                  [] type = 82 -> parse_R(msg, len, stale)
                  [] type = 72 -> parse_H(msg, len, stale)
                  [] type = 65 -> parse_A(msg, len, stale)
                  [] type = 70 -> parse_F(msg, len, stale)
                  [] type = 69 -> parse_E(msg, len, stale)
                  [] type = 67 -> parse_C(msg, len, stale)
                  [] type = 88 -> parse_X(msg, len, stale)
                  [] type = 68 -> parse_D(msg, len, stale)
                  [] type = 85 -> parse_U(msg, len, stale)
                  [] type = 80 -> parse_P(msg, len, stale)
                  [] type = 81 -> parse_Q(msg, len, stale)
                  [] type = 66 -> parse_B(msg, len, stale)
                  [] OTHER -> TooShort
       IN  [d EXCEPT !.reads = @ \cup Field(0, 1)]

\* No call of the parser is made.
ParserOff ==
  /\ pmsg = <<>>
  /\ plen = 0
  /\ ppc = "off"
  /\ accessed = {}
  /\ parsed = <<>>

\* A caller about to call parse_itch_message(msg, len) with an array of its
\* own.
InitParser(inputs) ==
  /\ \E in \in inputs : pmsg = in.msg /\ plen = in.len
  /\ ppc = "call"
  /\ accessed = {}
  /\ parsed = <<>>

\* One call of parse_itch_message.
ParseItchMessage ==
  /\ ppc = "call"
  /\ \E stale \in StaleBytes :
       LET r == parse_itch_message(pmsg, plen, stale)
       IN  /\ accessed' = r.reads
           /\ parsed' = r.decoded
  /\ ppc' = "returned"
  /\ UNCHANGED <<pmsg, plen, server_vars, client_vars>>

\* -------------------------------------------------------------------------
\* Initial states
\* -------------------------------------------------------------------------

\* The server after main's setup: listening, the accept thread started,
\* main in sleep(2) (at = "sleep"), every slot zeroed; at = "off" is a server
\* that is not run.
InitServerWith(files, at, speeds) ==
  /\ file \in files
  /\ fpos = 0
  /\ buffer = <<>>
  /\ prev_timestamp = U64Zero
  /\ current_timestamp = U64Zero
  /\ messages_sent = 0
  /\ total_bytes = 0
  /\ speed_multiplier \in speeds
  /\ pc = at
  /\ bi = 0
  /\ clients = NoClients
  /\ clients_mutex = "free"
  /\ server_running = 1
  /\ server_fd = "open"
  /\ apc = "while"
  /\ client_fd = -1
  /\ nconn = 0
  /\ conn = <<>>
  /\ bcast = [start |-> NoClients, tried |-> {}, errs |-> {}]
  /\ emitted = <<>>
  /\ diag = <<>>
  /\ slept = 0
  /\ naps = <<>>

\* The same at the default speed.
InitServer(files, at) ==
  InitServerWith(files, at, {Double(DEFAULT_SPEED, 0)})

\* init_stats: memset 0
NoStats == [total_messages |-> 0, total_bytes |-> 0,
            messages_by_type |-> [b \in 0..255 |-> 0]]

\* The client once connected, the server writing the bytes of some stream.
InitClient(streams, at) ==
  /\ wire \in streams
  /\ wpos = 0
  /\ cbuffer = <<>>
  /\ cpc = at
  /\ stats = NoStats
  /\ cframed = <<>>
  /\ cdiag = <<>>
  /\ report = <<>>

\* -------------------------------------------------------------------------
\* Specifications
\* -------------------------------------------------------------------------

\* Connections that arrive while the server runs.
MaxConns == 2

\* The file replayed to subscribers: two messages.
ReplayFiles == {MsgS \o MsgD}

\* The server replaying a file to the subscribers that connect.
Init == InitServer(ReplayFiles, "sleep") /\ InitClient({<<>>}, "off") /\ ParserOff

Next ==
  \/ MainStartReplay
  \/ ReplayRefill("file")
  \/ ReplayComplete
  \/ ReplayPace
  \/ BroadcastLock
  \/ BroadcastSend
  \/ BroadcastUnlock
  \/ ReplayConsume
  \/ MainStop
  \/ MainJoin
  \/ CleanupLock
  \/ CleanupClose
  \/ CleanupUnlock
  \/ AcceptLoopTest
  \/ AcceptConnection(MaxConns)
  \/ AcceptError
  \/ AcceptLock
  \/ AcceptAssign
  \/ AcceptUnlock

Spec == Init /\ [][Next]_vars

\* The framer alone: the server replaying any file with no subscriber, or
\* the client receiving any stream of whole items.
InitFramer ==
  \/ InitServer(Files, "sleep") /\ InitClient({<<>>}, "off") /\ ParserOff
  \/ InitServer({<<>>}, "off") /\ InitClient(WholeStreams, "recv") /\ ParserOff

NextFramer ==
  \/ MainStartReplay
  \/ ReplayRefill("file")
  \/ ReplayUnknown
  \/ ReplayWait("file")
  \/ ReplayComplete
  \/ ReplayPace
  \/ BroadcastLock
  \/ BroadcastUnlock
  \/ ReplayConsume
  \/ MainStop
  \/ ClientRecv
  \/ ClientDrained
  \/ ClientUnknown
  \/ ClientIncomplete
  \/ ClientMessage

SpecFramer == InitFramer /\ [][NextFramer]_vars

\* The framer fed by a source that returns short reads.
InitChunk ==
  /\ InitServer(MessageStreams, "sleep")
  /\ InitClient({<<>>}, "off")
  /\ ParserOff

NextChunk ==
  \/ MainStartReplay
  \/ ReplayRefill("stream")
  \/ ReplayWait("stream")
  \/ ReplayComplete
  \/ ReplayPace
  \/ BroadcastLock
  \/ BroadcastUnlock
  \/ ReplayConsume
  \/ MainStop

SpecChunk == InitChunk /\ [][NextChunk]_vars

\* The server given an empty file while more connections arrive than it has
\* slots.
MaxConnsCap == 34

InitCap == InitServer({<<>>}, "sleep") /\ InitClient({<<>>}, "off") /\ ParserOff

NextCap ==
  \/ MainStartReplay
  \/ ReplayRefill("file")
  \/ MainStop
  \/ MainJoin
  \/ CleanupLock
  \/ CleanupClose
  \/ CleanupUnlock
  \/ AcceptLoopTest
  \/ AcceptConnection(MaxConnsCap)
  \/ AcceptError
  \/ AcceptLock
  \/ AcceptAssign
  \/ AcceptUnlock

SpecCap == InitCap /\ [][NextCap]_vars

\* -------------------------------------------------------------------------
\* Vocabulary of the properties
\* -------------------------------------------------------------------------

\* The replay loop has ended.
ReplayOver == pc \in {"exit", "join", "cleanup", "closing", "done"}

\* Sequences of whole messages, and of whole items, up to the bound.
MessageSeqs == UNION {[1..n -> {MsgS, MsgD}] : n \in 0..MaxItems}

IsMessage(item) == get_message_length(item[1]) # 0

RECURSIVE MessagesOf(_)
MessagesOf(ss) ==
  IF ss = <<>> THEN <<>>
  ELSE IF IsMessage(Head(ss)) THEN <<Head(ss)>> \o MessagesOf(Tail(ss))
  ELSE MessagesOf(Tail(ss))

RECURSIVE StraysOf(_)
StraysOf(ss) ==
  IF ss = <<>> THEN <<>>
  ELSE IF IsMessage(Head(ss)) THEN StraysOf(Tail(ss))
  ELSE <<Diag("unknown_type", Head(ss)[1])>> \o StraysOf(Tail(ss))

RECURSIVE OfKind(_, _)
OfKind(ds, kind) ==
  IF ds = <<>> THEN <<>>
  ELSE IF Head(ds)[1] = kind THEN <<Head(ds)>> \o OfKind(Tail(ds), kind)
  ELSE OfKind(Tail(ds), kind)

IsPrefix(s, t) == Len(s) <= Len(t) /\ s = SubSeq(t, 1, Len(s))

\* -------------------------------------------------------------------------
\* C1
\* -------------------------------------------------------------------------

\* C1: when the file is a concatenation of well-formed messages of the type
\* table, the server's replay loop emits messages of that concatenation only,
\* in order, each as long as the table says for its type byte, and has
\* emitted exactly all of them when the loop ends.
FramerRoundTrip ==
  cpc = "off" =>
    \A ss \in MessageSeqs :
      file = Flatten(ss) =>
        /\ IsPrefix(emitted, ss)
        /\ \A k \in 1..Len(emitted) :
             Len(emitted[k]) = ITCH_MSG_LENGTHS[emitted[k][1]]
        /\ ReplayOver => emitted = ss

\* A file of at least two messages has been replayed to its end.
FramerRoundTripWitness ==
  /\ cpc = "off"
  /\ ReplayOver
  /\ \E ss \in MessageSeqs :
       /\ Len(ss) >= 2
       /\ ss[1] # ss[2]
       /\ file = Flatten(ss)
       /\ emitted = ss

\* -------------------------------------------------------------------------
\* C2
\* -------------------------------------------------------------------------

\* Sequences of whole items up to the bound (they flatten to WholeStreams).
ItemsOf(stream) == {ss \in ItemSeqs : Flatten(ss) = stream}

\* In the server: a step taken with an unknown type byte at the front of the
\* buffer removes that byte only, prints one diagnostic naming it, emits
\* nothing and goes back to the head of the loop.
ServerUnknownStep ==
  (pc = "frame" /\ get_message_length(buffer[1]) = 0 /\ pc' # pc) =>
    /\ buffer' = Tail(buffer)
    /\ diag' = Append(diag, Diag("unknown_type", buffer[1]))
    /\ emitted' = emitted
    /\ fpos' = fpos
    /\ pc' = "loop"

\* In the client: the same, for a pass of the inner loop.
ClientUnknownStep ==
  (cpc = "parse" /\ Len(cbuffer) > 0
     /\ get_itch_message_length(cbuffer[1]) = 0 /\ cbuffer' # cbuffer) =>
    /\ cbuffer' = Tail(cbuffer)
    /\ cdiag' = Append(cdiag, Diag("unknown_type", cbuffer[1]))
    /\ cframed' = cframed
    /\ stats' = stats
    /\ cpc' = "parse"

\* Once a stream of whole items has been framed to its end, the messages
\* framed are the messages of the stream, intact and in order, and the
\* unknown-type diagnostics are those of its stray bytes, one each.
ResyncResult ==
  /\ (cpc = "off" /\ ReplayOver) =>
       \A ss \in ItemsOf(file) :
         /\ emitted = MessagesOf(ss)
         /\ OfKind(diag, "unknown_type") = StraysOf(ss)
  /\ cpc = "done" =>
       \A ss \in ItemsOf(wire) :
         /\ cframed = MessagesOf(ss)
         /\ OfKind(cdiag, "unknown_type") = StraysOf(ss)

\* C2: an unknown type byte at the front of the buffer costs exactly that
\* byte and one diagnostic, no message is emitted for it, and the messages
\* around it are framed intact; in the server's loop and in the client's.
UnknownTypeResync ==
  /\ [][ServerUnknownStep /\ ClientUnknownStep]_vars
  /\ []ResyncResult

\* The server has framed a stray byte followed by a message: one diagnostic
\* for the stray byte, then the message.
UnknownTypeResyncWitness ==
  /\ cpc = "off"
  /\ ReplayOver
  /\ file = StrayByte \o MsgS
  /\ diag = <<Diag("unknown_type", 255), Diag("end_of_file", 0)>>
  /\ emitted = <<MsgS>>

\* The client has framed a stream that holds a stray byte before a message.
ClientResyncWitness ==
  /\ cpc = "done"
  /\ wire = StrayByte \o MsgD \o StrayByte
  /\ OfKind(cdiag, "unknown_type") = <<Diag("unknown_type", 255), Diag("unknown_type", 255)>>
  /\ cframed = <<MsgD>>

\* -------------------------------------------------------------------------
\* C3
\* -------------------------------------------------------------------------

\* C3: whatever non-empty chunks the reads of the source return, the replay
\* loop ends having emitted the messages of a well-formed stream, as it does
\* when one read returns the whole stream.
RefillInvariance ==
  ReplayOver => \A ss \in MessageSeqs : file = Flatten(ss) => emitted = ss

\* -------------------------------------------------------------------------
\* C4
\* -------------------------------------------------------------------------

\* The loop has ended with part of a message resident and the file read to
\* its end.
TruncatedTail ==
  /\ cpc = "off"
  /\ ReplayOver
  /\ buffer # <<>>
  /\ get_message_length(buffer[1]) > Len(buffer)
  /\ fpos = Len(file)

Reported(kind) == \E k \in 1..Len(diag) : diag[k][1] = kind

\* C4: when the file ends inside a message, the loop ends with the
\* truncated-message diagnostic printed and with exactly the complete
\* messages before the partial one emitted.
TruncationReported ==
  TruncatedTail =>
    /\ Reported("incomplete_message")
    /\ \A ss \in ItemSeqs :
         file = Flatten(ss) \o buffer => emitted = MessagesOf(ss)

\* What does hold of a truncated tail: the complete messages before it are
\* emitted and nothing is emitted for it.
TruncationDropsTail ==
  TruncatedTail =>
    \A ss \in ItemSeqs :
      file = Flatten(ss) \o buffer => emitted = MessagesOf(ss)

\* -------------------------------------------------------------------------
\* C5
\* -------------------------------------------------------------------------

RECURSIVE TotalLen(_)
TotalLen(ss) == IF ss = <<>> THEN 0 ELSE Len(Head(ss)) + TotalLen(Tail(ss))

\* Every byte of the file is in an emitted message, was skipped as an
\* unknown type byte, or is left resident.
BytesBalance ==
  (cpc = "off" /\ ReplayOver) =>
    /\ fpos = Len(file)
    /\ Len(file) = TotalLen(emitted) + Len(OfKind(diag, "unknown_type"))
                     + Len(buffer)

\* C5: when the loop ends every byte of the file has been read and is in an
\* emitted message, was skipped with an unknown-type diagnostic, or belongs
\* to a truncated tail for which the diagnostic was printed.
BytesAccounted ==
  /\ BytesBalance
  /\ (cpc = "off" /\ ReplayOver /\ buffer # <<>>) =>
       Reported("incomplete_message")

\* -------------------------------------------------------------------------
\* Vocabulary of the subscriber properties
\* -------------------------------------------------------------------------

\* conn[c], for each accepted connection c:
\*   closes   close() calls made on the socket
\*   rcvd     the bytes its send calls accepted, in order
\*   offered  the messages passed to send on it, in order
\*   errors   send calls on it that returned -1
\*   short    send calls on it that accepted less than the message
\*   attach   messages handed to broadcast_message before its slot was
\*            assigned (-1: no slot assigned)
\*   early    its slot was assigned before the replay began
ConnIds == 1..nconn

\* The slots that were active when the current broadcast took the mutex.
ActiveAtStart == {i \in Slots : bcast.start[i].active # 0}

\* The slots whose send failed in the current broadcast.
Failed == {e[1] : e \in bcast.errs}

\* The current broadcast has made its last attempt and not yet returned.
BroadcastEnding == pc = "send" /\ bi = MAX_CLIENTS

\* -------------------------------------------------------------------------
\* C6
\* -------------------------------------------------------------------------

\* C6: between broadcasts, every subscriber attached before the replay began
\* whose sends never returned an error has been given, by its socket, the
\* concatenation of the messages emitted so far (so any two of them hold the
\* same bytes, with no message cut, doubled or out of order).
HealthyDelivery ==
  pc # "send" =>
    \A c \in ConnIds :
      (conn[c].early /\ conn[c].errors = 0) => conn[c].rcvd = Flatten(emitted)

\* The same, for the subscribers whose sends all took the whole message.
WholeSendDelivery ==
  pc # "send" =>
    \A c \in ConnIds :
      (conn[c].early /\ conn[c].errors = 0 /\ conn[c].short = 0) =>
        conn[c].rcvd = Flatten(emitted)

\* -------------------------------------------------------------------------
\* C7
\* -------------------------------------------------------------------------

\* The slot that holds connection c and is active, if any.
ActiveSlotsOf(c) ==
  {i \in Slots : clients[i].active # 0 /\ clients[i].socket_fd = c}

\* C7: the messages passed to send on a connection are a run of consecutive
\* whole messages of the framer's output that starts with the first message
\* broadcast after its slot was assigned, and while its slot is active the run
\* reaches the last message broadcast (the one in progress included, once
\* the loop has passed its slot).
ContiguousRun ==
  \A c \in ConnIds :
    LET a == conn[c].attach
        n == Len(conn[c].offered)
    IN  IF a < 0 THEN n = 0
        ELSE /\ a + n <= Len(emitted)
             /\ conn[c].offered = SubSeq(emitted, a + 1, a + n)
             /\ \A i \in ActiveSlotsOf(c) :
                  a + n = IF pc = "send" /\ i >= bi
                            THEN Len(emitted) - 1 ELSE Len(emitted)

\* One subscriber attached before the first message has been sent both
\* messages, another attached between the two has been sent the second only.
ContiguousRunWitness ==
  /\ nconn = 2
  /\ conn[1].attach = 0
  /\ conn[1].offered = <<MsgS, MsgD>>
  /\ conn[2].attach = 1
  /\ conn[2].offered = <<MsgD>>

\* -------------------------------------------------------------------------
\* C8
\* -------------------------------------------------------------------------

\* C8: when broadcast_message is about to return, every slot whose send
\* failed in it, whatever the error, is inactive and its socket has been
\* closed exactly once.
FailedSendRetires ==
  BroadcastEnding =>
    \A i \in Failed :
      /\ clients[i].active = 0
      /\ conn[bcast.start[i].socket_fd].closes = 1

\* The same for the disconnect-class errors only.
DisconnectRetires ==
  BroadcastEnding =>
    \A e \in bcast.errs :
      e[2] \in {"EPIPE", "ECONNRESET"} =>
        /\ clients[e[1]].active = 0
        /\ conn[bcast.start[e[1]].socket_fd].closes = 1

\* -------------------------------------------------------------------------
\* C9
\* -------------------------------------------------------------------------

\* C9: during a broadcast, send is called only on slots that were active
\* when it began and with the whole message, a slot whose send has not
\* failed keeps its flag, socket and address, and the broadcast ends only
\* after a send on every slot that was active when it began.
FailureIsolated ==
  pc = "send" =>
    /\ bcast.tried \subseteq ActiveAtStart
    /\ \A i \in Slots \ Failed : clients[i] = bcast.start[i]
    /\ \A i \in bcast.tried :
         LET sent == conn[bcast.start[i].socket_fd].offered
         IN  sent # <<>> /\ sent[Len(sent)] = FrontMessage
    /\ bi = MAX_CLIENTS => bcast.tried = ActiveAtStart

\* A broadcast is ending in which the send to slot 0 failed and the send to
\* slot 1 was made all the same and left slot 1 as it was.
FailureIsolatedWitness ==
  /\ BroadcastEnding
  /\ 0 \in Failed
  /\ 1 \in bcast.tried \ Failed
  /\ clients[1].active = 1

\* -------------------------------------------------------------------------
\* C10
\* -------------------------------------------------------------------------

\* Every slot of the table is active.
TableFull == \A i \in Slots : clients[i].active # 0

\* The accept thread's step out of lines 266-275 with the table full: the
\* new socket is closed, once, the table is as it was, and the thread goes
\* on to the unlock.
RejectStep ==
  (apc = "assign" /\ apc' # "assign" /\ TableFull) =>
    /\ clients' = clients
    /\ conn[client_fd].closes = 0
    /\ conn'[client_fd].closes = 1
    /\ conn'[client_fd].attach = -1
    /\ apc' = "unlock"

\* The accept thread returns only once main has cleared server_running.
AcceptKeepsRunning == apc = "returned" => server_running = 0

\* C10: with all MAX_CLIENTS slots active, a newly accepted connection is
\* closed at once, no slot's flag, socket or address changes, at most
\* MAX_CLIENTS slots are active, and the accept loop keeps running.
CapacityReject ==
  /\ [][RejectStep]_vars
  /\ [](Cardinality({i \in Slots : clients[i].active # 0}) <= MAX_CLIENTS)
  /\ []AcceptKeepsRunning

\* With the table full, connection 33 was turned away and closed, and the
\* loop went on to accept connection 34.
CapacityRejectWitness ==
  /\ TableFull
  /\ nconn = MAX_CLIENTS + 2
  /\ conn[MAX_CLIENTS + 1].closes = 1
  /\ conn[MAX_CLIENTS + 1].attach = -1
  /\ \A i \in Slots : clients[i].socket_fd = i + 1

\* -------------------------------------------------------------------------
\* C11
\* -------------------------------------------------------------------------

\* Slot i goes from not active to active in this step.
Activated(i) == clients[i].active = 0 /\ clients'[i].active # 0

\* Slot i goes from active to not active in this step.
Deactivated(i) == clients[i].active # 0 /\ clients'[i].active = 0

\* The step is the accept thread's assignment of the connection it has just
\* accepted, which no slot holds yet, to slot i.
AssignedByAcceptor(i) ==
  /\ apc = "assign" /\ apc' = "unlock"
  /\ conn[client_fd].attach = -1
  /\ clients'[i].socket_fd = client_fd

\* The step is broadcast_message handling a failed send on slot i.
RetiredByBroadcast(i) ==
  /\ pc = "send" /\ bi = i
  /\ i \in {e[1] : e \in bcast'.errs}

\* The step is the cleanup of main closing the socket of slot i.
ClosedByShutdown(i) == pc = "closing" /\ bi = i

SlotStep(i) ==
  /\ Activated(i) => AssignedByAcceptor(i)
  /\ Deactivated(i) => (RetiredByBroadcast(i) \/ ClosedByShutdown(i))
  /\ (clients[i].active # 0 /\ clients'[i].active # 0) =>
       clients'[i] = clients[i]
  /\ clients'[i] # clients[i] => (Activated(i) \/ Deactivated(i))

\* C11: a slot becomes active only by the accept thread assigning it a newly
\* accepted connection, only a slot that is not active is assigned (the
\* entry of an active slot is never written), and a slot stops being active
\* only in broadcast_message after a failed send on it or in the shutdown;
\* a slot retired so is assigned again to a later connection.
SlotLifecycle == [][clients' # clients => \A i \in Slots : SlotStep(i)]_vars

\* Slot 0 held connection 1, was retired by a failed send (the socket closed
\* once) and now holds connection 2.
SlotLifecycleWitness ==
  /\ nconn = 2
  /\ conn[1].attach >= 0
  /\ conn[1].closes = 1
  /\ conn[2].attach >= 0
  /\ clients[0].active # 0
  /\ clients[0].socket_fd = 2

\* -------------------------------------------------------------------------
\* C12
\* -------------------------------------------------------------------------

\* A thread that is between its lock and its unlock owns clients_mutex.
InsideOwnsMutex ==
  /\ pc = "send" => clients_mutex = "replay"
  /\ pc = "closing" => clients_mutex = "main"
  /\ apc \in {"assign", "unlock"} => clients_mutex = "accept"

\* A step that writes the table, or moves a loop over it, is made by the
\* owner of clients_mutex; a step of a broadcast never activates a slot.
TableStep ==
  /\ clients' # clients => \/ clients_mutex = "replay" /\ pc = "send"
                           \/ clients_mutex = "accept" /\ apc = "assign"
  /\ (bi' # bi /\ pc \in {"send", "closing"}) =>
       clients_mutex = (IF pc = "send" THEN "replay" ELSE "main")
  /\ (pc = "send" /\ clients' # clients) => \A i \in Slots : ~Activated(i)

\* C12: the broadcast, the slot scan and assignment of the accept thread and
\* the cleanup of main touch the table only while they hold clients_mutex,
\* so at most one of them is inside at a time and no slot is assigned while
\* a broadcast goes over the table.
TableUnderMutex == []InsideOwnsMutex /\ [][TableStep]_vars

\* The accept thread has a connection in hand and waits for the mutex while
\* a broadcast holds it.
TableUnderMutexWitness ==
  /\ pc = "send"
  /\ bi < MAX_CLIENTS
  /\ clients_mutex = "replay"
  /\ apc = "lock"

\* -------------------------------------------------------------------------
\* The pacing alone
\* -------------------------------------------------------------------------

\* Longest paced file, in messages.
MaxPaced == 3

\* Timestamps of the paced messages: the generator's first and second, 500 ns
\* and 2 s after its first, and the largest of 48 bits.
TS_SOON == <<0, 2038478, 14283252>>

TS_LATE == <<0, 2038598, 1016832>>

TS_LAST == <<0, 16777215, 16777215>>

PaceStamps == {TS_OPEN, TS_SOON, TS_NEXT, TS_LATE, TS_LAST}

\* Files of System Event messages with any of these timestamps in any order.
PaceFiles ==
  {Flatten(ss) :
     ss \in UNION {[1..n -> {Message(83, ts, 79) : ts \in PaceStamps}] :
                     n \in 0..MaxPaced}}

\* Speeds given as the third argument: 0, 1, 2, 127 and 2^-24.
PaceSpeeds ==
  {Double(0, 0), Double(1, 0), Double(2, 0), Double(127, 0), Double(1, -24)}

InitPace ==
  InitServerWith(PaceFiles, "sleep", PaceSpeeds) /\ InitClient({<<>>}, "off") /\ ParserOff

NextPace ==
  \/ MainStartReplay
  \/ ReplayRefill("file")
  \/ ReplayComplete
  \/ ReplayPace
  \/ BroadcastLock
  \/ BroadcastUnlock
  \/ ReplayConsume
  \/ MainStop

SpecPace == InitPace /\ [][NextPace]_vars

\* -------------------------------------------------------------------------
\* C13
\* -------------------------------------------------------------------------

\* The timestamp embedded in a message: bytes 5..10 as a big-endian number.
StampOf(msg) == Limbs(<<0, 0>> \o SubSeq(msg, 6, 11))

\* The embedded timestamps of the records of the file, in order (every
\* record of a paced file is 12 bytes long).
FeedStamps ==
  [k \in 1..(Len(file) \div 12) |-> StampOf(SubSeq(file, 12 * k - 11, 12 * k))]

NonDecreasing(ts) ==
  \A k \in 1..(Len(ts) - 1) : ~U64Gt(ts[k], ts[k + 1])

\* The whole nanoseconds of delta / m when that is at most one second, and
\* -1 when it is more.
ScaledNs(delta, m) ==
  LET q == Quotient(delta, m)
  IN  IF q[1] = 0 /\ q[2] = 0
         /\ (q[3] < 59 \/ (q[3] = 59 /\ q[4] <= 10144256))
        THEN q[3] * 16777216 + q[4] ELSE -1

NoLongGap(ts, m) ==
  \A k \in 1..(Len(ts) - 1) : ScaledNs(U64Sub(ts[k + 1], ts[k]), m) >= 0

RECURSIVE SumFrom(_, _)
SumFrom(s, k) == IF k > Len(s) THEN 0 ELSE s[k] + SumFrom(s, k + 1)

\* The nanoseconds slept between the emission of the first record and that
\* of record k: the least wall-clock time that can have passed.
SleptBefore(k) == SumFrom(SubSeq(naps, 1, k), 2)

\* The whole nanoseconds of (t_k - T_feed_0) / m, a sum of scaled gaps none
\* of which is over a second.
DueBefore(ts, k, m) ==
  LET q == Quotient(U64Sub(ts[k], ts[1]), m)
  IN  q[3] * 16777216 + q[4]

\* C13: at a speed above 0, for a feed of non-decreasing timestamps in which
\* no scaled gap is over a second, when record k is handed to the broadcast
\* at least (t_k - T_feed_0) / m nanoseconds (to the whole nanosecond) have
\* been slept since the first record was.
PacingLaw ==
  (/\ speed_multiplier.mant > 0
   /\ NonDecreasing(FeedStamps)
   /\ NoLongGap(FeedStamps, speed_multiplier)) =>
    \A k \in 1..Len(emitted) :
      SleptBefore(k) >= DueBefore(FeedStamps, k, speed_multiplier)

\* The same for the feeds whose scaled gaps are all over a microsecond.
PacingLawAboveThreshold ==
  (/\ speed_multiplier.mant > 0
   /\ NonDecreasing(FeedStamps)
   /\ NoLongGap(FeedStamps, speed_multiplier)
   /\ \A k \in 1..(Len(FeedStamps) - 1) :
        ScaledNs(U64Sub(FeedStamps[k + 1], FeedStamps[k]), speed_multiplier)
          > SLEEP_MIN_NS) =>
    \A k \in 1..Len(emitted) :
      SleptBefore(k) >= DueBefore(FeedStamps, k, speed_multiplier)

\* -------------------------------------------------------------------------
\* C17
\* -------------------------------------------------------------------------

\* C17: no sleep made between two messages is longer than one second,
\* whatever the two timestamps and whatever the speed above 0.
SleepCapped ==
  speed_multiplier.mant > 0 =>
    /\ slept <= SLEEP_CAP_NS
    /\ \A k \in 1..Len(naps) : naps[k] <= SLEEP_CAP_NS

\* At speed 1 a message stamped 2 s after the one before it has been slept
\* for one second.
SleepCappedWitness ==
  /\ speed_multiplier = Double(1, 0)
  /\ Len(emitted) = 2
  /\ StampOf(emitted[1]) = TS_OPEN
  /\ StampOf(emitted[2]) = TS_LATE
  /\ naps = <<0, SLEEP_CAP_NS>>

\* -------------------------------------------------------------------------
\* C20
\* -------------------------------------------------------------------------

\* The big-endian value of b[0..6) as limbs.
BigEndian48(b) ==
  <<0, b[1] * 65536 + b[2] * 256 + b[3], b[4] * 65536 + b[5] * 256 + b[6]>>

\* C20: read_timestamp and parse_timestamp return the big-endian value of
\* the first six bytes, below 2^48, whatever the two bytes after them are;
\* the six bytes write_timestamp lays down for a timestamp below 2^48 decode
\* to that timestamp; and the replay loop's current_timestamp is the
\* timestamp embedded in the message it is about to broadcast.  (The two
\* statements about the functions alone do not depend on the state; they
\* are evaluated in the initial states of the empty file.)
TimestampDecoded ==
  /\ (pc = "sleep" /\ file = <<>>) =>
       /\ \A b \in [1..8 -> StaleBytes] :
            /\ read_timestamp(b) = BigEndian48(b)
            /\ parse_timestamp(b) = BigEndian48(b)
       /\ \A ts \in PaceStamps : \A tail \in [1..2 -> StaleBytes] :
            /\ read_timestamp(write_timestamp(ts) \o tail) = ts
            /\ parse_timestamp(write_timestamp(ts) \o tail) = ts
  /\ pc = "broadcast" =>
       /\ current_timestamp = StampOf(FrontMessage)
       /\ current_timestamp \in PaceStamps
       /\ current_timestamp[1] = 0

\* The largest timestamp has been decoded from the last message of the
\* file, whose eight-byte read goes one byte past the resident bytes.
TimestampDecodedWitness ==
  /\ pc = "broadcast"
  /\ Len(file) = 24
  /\ Len(buffer) = 12
  /\ current_timestamp = TS_LAST

\* -------------------------------------------------------------------------
\* The server under fair scheduling
\* -------------------------------------------------------------------------

\* The steps of the main thread (the replay, the broadcast, the shutdown).
MainThread ==
  \/ MainStartReplay
  \/ ReplayRefill("file")
  \/ ReplayComplete
  \/ ReplayPace
  \/ BroadcastLock
  \/ BroadcastSend
  \/ BroadcastUnlock
  \/ ReplayConsume
  \/ MainStop
  \/ MainJoin
  \/ CleanupLock
  \/ CleanupClose
  \/ CleanupUnlock

\* The steps the accept thread takes by itself; the return of accept (a
\* connection arrives, or a signal interrupts the call) is not one of them.
AcceptThread ==
  \/ AcceptLoopTest
  \/ AcceptLock
  \/ AcceptAssign
  \/ AcceptUnlock

\* Both threads are scheduled as long as they can run; no client has to
\* connect.
SpecLive ==
  Init /\ [][Next]_vars /\ WF_vars(MainThread) /\ WF_vars(AcceptThread)

\* -------------------------------------------------------------------------
\* C14
\* -------------------------------------------------------------------------

\* The shutdown is complete: the listening socket and the socket of every
\* active slot are closed and main has returned.
ShutdownComplete ==
  /\ pc = "done"
  /\ server_fd = "closed"
  /\ \A i \in Slots :
       clients[i].active # 0 => conn[clients[i].socket_fd].closes >= 1

\* C14: once the replay loop has ended, server_running is cleared, the
\* accept thread then returns, and the shutdown then completes.
ShutdownCompletes ==
  /\ (pc = "exit") ~> (server_running = 0)
  /\ (server_running = 0) ~> (apc = "returned")
  /\ (apc = "returned") ~> ShutdownComplete

\* The parts of it that do not wait for the accept thread.
ShutdownAfterReturn ==
  /\ (pc = "exit") ~> (server_running = 0)
  /\ (apc = "returned") ~> ShutdownComplete

\* -------------------------------------------------------------------------
\* main from its first line
\* -------------------------------------------------------------------------

\* The values atof may give for the third argument.
ArgSpeeds == {Double(-1, 0), Double(0, 0), Double(1, 0), Double(2, 0)}

\* Lines 285-313: the arguments.  argc below 2 prints the usage and returns
\* 1; the speed is the third argument when there is one.
MainParseArgs ==
  /\ pc = "args"
  /\ \E argc \in 1..4 : \E speed \in ArgSpeeds :
       IF argc < 2
         THEN /\ diag' = Append(diag, Diag("usage", 0))
              /\ pc' = "exit1"
              /\ UNCHANGED speed_multiplier
         ELSE /\ speed_multiplier' = IF argc >= 4 THEN speed ELSE speed_multiplier
              /\ pc' = "setup"
              /\ UNCHANGED diag
  /\ UNCHANGED <<file, fpos, buffer, prev_timestamp, current_timestamp,
                 messages_sent, total_bytes, emitted, slept, naps,
                 outside_replay>>

\* What socket, setsockopt, bind and listen may do: all succeed, or one of
\* them fails.
SetupOutcomes == {"ok", "socket", "setsockopt", "bind", "listen"}

\* Lines 323-365: the listening socket, the memset of the table and the
\* start of the accept thread; a failure is reported, the socket (if there
\* is one) is closed and main returns 1.
MainSetup ==
  /\ pc = "setup"
  /\ \E outcome \in SetupOutcomes :
       IF outcome = "ok"
         THEN /\ server_fd' = "open"
              /\ clients' = NoClients
              /\ apc' = "while"
              /\ pc' = "sleep"
              /\ UNCHANGED diag
         ELSE /\ diag' = Append(diag, Diag("perror", 0))
              /\ server_fd' = IF outcome = "socket" THEN "none" ELSE "closed"
              /\ pc' = "exit1"
              /\ UNCHANGED <<clients, apc>>
  /\ UNCHANGED <<file, fpos, buffer, prev_timestamp, current_timestamp,
                 messages_sent, total_bytes, speed_multiplier, emitted, slept,
                 naps, bi, clients_mutex, server_running, client_fd, nconn,
                 conn, bcast, client_vars, parser_vars>>

\* Lines 368-374 when the file cannot be opened (lines 118-131): the failure
\* is reported, replay_itch_file returns -1, which main does not look at,
\* and main goes on to clear server_running.
MainOpenFails ==
  /\ pc = "sleep"
  /\ diag' = Append(diag, Diag("open_failed", 0))
  /\ server_running' = 0
  /\ pc' = "join"
  /\ UNCHANGED <<file, fpos, buffer, prev_timestamp, current_timestamp,
                 messages_sent, total_bytes, speed_multiplier, emitted, slept,
                 naps, bi, table_vars, server_fd, accept_vars, conn, bcast,
                 client_vars, parser_vars>>

\* The value main returns: 1 at lines 296, 326, 334, 347 and 354, 0 at line
\* 388; -1 while it has not returned.
ExitCode == IF pc = "exit1" THEN 1 ELSE IF pc = "done" THEN 0 ELSE -1

\* main at its first line: the configuration holds the defaults, no socket,
\* no accept thread, the static table zeroed.
InitMain ==
  /\ file = MsgS
  /\ fpos = 0
  /\ buffer = <<>>
  /\ prev_timestamp = U64Zero
  /\ current_timestamp = U64Zero
  /\ messages_sent = 0
  /\ total_bytes = 0
  /\ speed_multiplier = Double(DEFAULT_SPEED, 0)
  /\ pc = "args"
  /\ bi = 0
  /\ clients = NoClients
  /\ clients_mutex = "free"
  /\ server_running = 1
  /\ server_fd = "none"
  /\ apc = "off"
  /\ client_fd = -1
  /\ nconn = 0
  /\ conn = <<>>
  /\ bcast = [start |-> NoClients, tried |-> {}, errs |-> {}]
  /\ emitted = <<>>
  /\ diag = <<>>
  /\ slept = 0
  /\ naps = <<>>
  /\ InitClient({<<>>}, "off") /\ ParserOff

\* The whole run of main with no client connecting.
NextMain ==
  \/ MainParseArgs
  \/ MainSetup
  \/ MainStartReplay
  \/ MainOpenFails
  \/ ReplayRefill("file")
  \/ ReplayComplete
  \/ ReplayPace
  \/ BroadcastLock
  \/ BroadcastUnlock
  \/ ReplayConsume
  \/ MainStop
  \/ MainJoin
  \/ CleanupLock
  \/ CleanupUnlock
  \/ AcceptLoopTest
  \/ AcceptError

SpecMain == InitMain /\ [][NextMain]_vars

\* -------------------------------------------------------------------------
\* C15
\* -------------------------------------------------------------------------

OpenFailed == \E k \in 1..Len(diag) : diag[k] = Diag("open_failed", 0)

\* C15: when the input file could not be opened, the failure has been
\* reported and main returns 1.
OpenFailureExitsOne ==
  (OpenFailed /\ ExitCode # -1) => ExitCode = 1

\* After a failed open nothing is replayed.
OpenFailureReplaysNothing == OpenFailed => emitted = <<>>

\* -------------------------------------------------------------------------
\* C16
\* -------------------------------------------------------------------------

\* C16: with a speed multiplier of 0 or less main does not get past its
\* setup: it returns 1 and no replay is started with that multiplier.
BadSpeedRejected ==
  speed_multiplier.mant <= 0 => pc \in {"args", "setup", "exit1"}

\* With a speed multiplier above 0 the replay may start.
GoodSpeedAccepted == pc = "exit1" => speed_multiplier.mant > 0

\* -------------------------------------------------------------------------
\* The type-to-length lookup applied to every byte
\* -------------------------------------------------------------------------

\* One stream per byte value: that byte followed by 49 bytes 'I', so that a
\* message of any length of the table that begins with it is complete.
ProbeStreams == {<<b>> \o [i \in 1..49 |-> 73] : b \in 0..255}

\* The server replaying a probe stream with no subscriber, or the client
\* receiving one.
InitLookup ==
  \/ InitServer(ProbeStreams, "sleep") /\ InitClient({<<>>}, "off") /\ ParserOff
  \/ InitServer({<<>>}, "off") /\ InitClient(ProbeStreams, "recv") /\ ParserOff

NextLookup ==
  \/ MainStartReplay
  \/ ReplayRefill("file")
  \/ ReplayUnknown
  \/ ReplayWait("file")
  \/ ReplayComplete
  \/ ReplayPace
  \/ BroadcastLock
  \/ BroadcastUnlock
  \/ ReplayConsume
  \/ MainStop
  \/ ClientRecv
  \/ ClientDrained
  \/ ClientUnknown
  \/ ClientIncomplete
  \/ ClientMessage

SpecLookup == InitLookup /\ [][NextLookup]_vars

\* -------------------------------------------------------------------------
\* C18
\* -------------------------------------------------------------------------

\* The lengths of the 20 defined types, 0 for any other byte.
CanonicalLength(b) ==
  CASE b = 83 -> 12 [] b = 82 -> 39 [] b = 72 -> 25 [] b = 89 -> 20
    [] b = 76 -> 26 [] b = 86 -> 35 [] b = 87 -> 12 [] b = 75 -> 28
    [] b = 65 -> 36 [] b = 70 -> 40 [] b = 69 -> 31 [] b = 67 -> 36
    [] b = 88 -> 23 [] b = 68 -> 19 [] b = 85 -> 35 [] b = 80 -> 44
    [] b = 81 -> 40 [] b = 66 -> 19 [] b = 73 -> 50 [] b = 78 -> 20
    [] OTHER -> 0

\* What a framing loop has made of the first byte of its stream once it has
\* gone past it: a message of the canonical length when that is not 0, an
\* unknown-type diagnostic when it is.
FirstByteHandled(stream, framed, diags) ==
  LET n == CanonicalLength(stream[1])
  IN  IF n = 0
        THEN /\ diags # <<>>
             /\ diags[1] = Diag("unknown_type", stream[1])
             /\ framed = <<>>
        ELSE /\ framed # <<>>
             /\ framed[1] = SubSeq(stream, 1, n)
             /\ \A k \in 1..Len(diags) : diags[k][1] # "unknown_type"

\* C18: for every byte value the server's get_message_length and the
\* parser's get_itch_message_length give the same length, the canonical one
\* for the 20 defined types and 0 for any other byte; and the server's loop
\* and the client's loop frame the first byte of a stream accordingly.  (The
\* statement about the two functions does not depend on the state; it is
\* evaluated in the states in which nothing has been read yet.)
LookupAgrees ==
  /\ (fpos = 0 /\ wpos = 0) =>
       \A b \in 0..255 :
         /\ get_message_length(b) = CanonicalLength(b)
         /\ get_itch_message_length(b) = CanonicalLength(b)
  /\ (pc \in {"exit", "join"} /\ file # <<>>) =>
       FirstByteHandled(file, emitted, diag)
  /\ (cpc = "done" /\ wire # <<>>) =>
       FirstByteHandled(wire, cframed, cdiag)

\* The client has received the stream that begins with 'P' whole and has
\* framed the 44 bytes of that message.
LookupAgreesWitness ==
  /\ cpc = "done"
  /\ wire[1] = 80
  /\ Len(cframed) = 1
  /\ Len(cframed[1]) = 44
  /\ stats.messages_by_type[80] = 1

\* -------------------------------------------------------------------------
\* C19
\* -------------------------------------------------------------------------

\* How many of the messages of ms are of type t.
CountOfType(ms, t) == Cardinality({k \in 1..Len(ms) : ms[k][1] = t})

\* C19: when the bytes on the wire are a sequence of framed messages, then
\* however recv cuts them the client recognises those messages in their
\* order, its counters (messages, bytes, messages per type) are those of the
\* messages it has recognised, it reports no unknown type, and when the
\* stream ends it has recognised them all.
ClientReframes ==
  cpc # "off" =>
    \A ss \in MessageSeqs :
      wire = Flatten(ss) =>
        /\ IsPrefix(cframed, ss)
        /\ stats.total_messages = Len(cframed)
        /\ stats.total_bytes = TotalLen(cframed)
        /\ \A t \in 0..255 :
             stats.messages_by_type[t] = CountOfType(cframed, t)
        /\ \A k \in 1..Len(cdiag) : cdiag[k][1] # "unknown_type"
        /\ cpc = "done" =>
             /\ cframed = ss
             /\ cbuffer = <<>>
             /\ stats.total_bytes = Len(wire)

\* Of three messages on the wire the client has recognised and counted the
\* first two, and recv has so far returned the first 5 bytes only of the
\* third.
ClientReframesWitness ==
  /\ cpc = "recv"
  /\ wire = MsgS \o MsgD \o MsgS
  /\ cframed = <<MsgS, MsgD>>
  /\ cbuffer = SubSeq(MsgS, 1, 5)
  /\ stats.total_messages = 2
  /\ stats.total_bytes = 31
  /\ stats.messages_by_type[83] = 1
  /\ stats.messages_by_type[68] = 1

\* -------------------------------------------------------------------------
\* The server framing a seed input
\* -------------------------------------------------------------------------

\* The thirteen input bytes of seed scenario S1:
\* 53 00 01 00 00 00 1F 1D 36 45 4D C0 4F.
S1Literal == <<83, 0, 1, 0, 0, 0, 31, 29, 54, 69, 77, 192, 79>>

\* The seed inputs as files: the thirteen bytes, the System Event message of
\* the generator (53 00 01 00 00 1F 1A CE D9 F0 00 4F), the same after a
\* stray byte, and each of them cut short.
SeedFiles ==
  UNION {{SubSeq(s, 1, k) : k \in 0..Len(s)} :
           s \in {S1Literal, MsgS, StrayByte \o MsgS}}

InitSeed ==
  InitServer(SeedFiles, "sleep") /\ InitClient({<<>>}, "off") /\ ParserOff

NextSeed ==
  \/ MainStartReplay
  \/ ReplayRefill("file")
  \/ ReplayUnknown
  \/ ReplayWait("file")
  \/ ReplayComplete
  \/ ReplayPace
  \/ BroadcastLock
  \/ BroadcastUnlock
  \/ ReplayConsume
  \/ MainStop

SpecSeed == InitSeed /\ [][NextSeed]_vars

\* -------------------------------------------------------------------------
\* C21
\* -------------------------------------------------------------------------

\* The outcome seed scenario S1 names: one framed message and no diagnostic
\* (no unknown type byte, no incomplete message; the notice of the end of the
\* file is not one), of type 'S' and length 12, whose timestamp is decoded as
\* 34200000000000 by the server and by parse_S, and whose event code is 'O'.
SeedOutcome ==
  /\ Len(emitted) = 1
  /\ OfKind(diag, "unknown_type") = <<>>
  /\ OfKind(diag, "incomplete_message") = <<>>
  /\ emitted[1][1] = 83
  /\ Len(emitted[1]) = 12
  /\ current_timestamp = TS_OPEN
  /\ \A stale \in StaleBytes :
       LET s == parse_S(emitted[1], Len(emitted[1]), stale)
       IN  /\ Len(s.decoded) = 2
           /\ s.decoded[1].timestamp = TS_OPEN
           /\ s.decoded[2] = 79

\* C21 as stated: framing the input bytes 53 00 01 00 00 00 1F 1D 36 45 4D
\* C0 4F yields exactly one framed message and no diagnostic, with type 'S',
\* length 12, decoded timestamp 34200000000000 and event code 'O'.
SeedS1AsWritten == (ReplayOver /\ file = S1Literal) => SeedOutcome

\* C21, amended: framing the twelve input bytes 53 00 01 00 00 1F 1A CE D9 F0
\* 00 4F yields exactly one framed message and no diagnostic, with type 'S',
\* length 12, decoded timestamp 34200000000000 and event code 'O'.
SeedS1 == (ReplayOver /\ file = MsgS) => SeedOutcome

\* The twelve bytes have been framed to the end of the file.
SeedS1Witness ==
  /\ ReplayOver
  /\ file = <<83, 0, 1, 0, 0, 31, 26, 206, 217, 240, 0, 79>>
  /\ emitted = <<file>>
  /\ diag = <<Diag("end_of_file", 0)>>
  /\ messages_sent = 1

\* What the code makes of the thirteen bytes: the first twelve as one message
\* of type 'S' with timestamp 0x001F1D36454D and event code 0xC0, then an
\* unknown-type diagnostic for the byte 'O'.
SeedS1LiteralOutcome ==
  (ReplayOver /\ file = S1Literal) =>
    /\ emitted = <<SubSeq(S1Literal, 1, 12)>>
    /\ diag = <<Diag("unknown_type", 79), Diag("end_of_file", 0)>>
    /\ current_timestamp = <<0, 7965, 3556685>>

\* -------------------------------------------------------------------------
\* The replay loop run to its end
\* -------------------------------------------------------------------------

\* The steps of the replay thread when no subscriber is attached.
ReplayThread ==
  \/ MainStartReplay
  \/ ReplayRefill("file")
  \/ ReplayUnknown
  \/ ReplayWait("file")
  \/ ReplayComplete
  \/ ReplayPace
  \/ BroadcastLock
  \/ BroadcastUnlock
  \/ ReplayConsume
  \/ MainStop

InitTerm ==
  InitServer(Files, "sleep") /\ InitClient({<<>>}, "off") /\ ParserOff

\* replay_itch_file is sequential code on the main thread: it takes its next
\* step whenever it has one (no subscriber, so no send to wait for).
SpecTerm == InitTerm /\ [][ReplayThread]_vars /\ WF_vars(ReplayThread)

\* -------------------------------------------------------------------------
\* C22
\* -------------------------------------------------------------------------

\* An iteration that goes back to the head of the loop has removed bytes from
\* the buffer: one for an unknown type, the length of the message otherwise.
IterationConsumes ==
  (pc # "loop" /\ pc' = "loop") =>
    \/ pc = "sleep" /\ buffer' = buffer
    \/ /\ pc = "frame"
       /\ get_message_length(buffer[1]) = 0
       /\ Len(buffer') = Len(buffer) - 1
    \/ /\ pc = "consume"
       /\ get_message_length(buffer[1]) >= 1
       /\ Len(buffer') = Len(buffer) - get_message_length(buffer[1])

\* The iterations that removed bytes so far.
ConsumingIterations == messages_sent + Len(OfKind(diag, "unknown_type"))

\* For a source of N bytes there are at most N of them, and the framed
\* sequence is no longer than that.
IterationBound ==
  /\ ConsumingIterations <= fpos
  /\ fpos <= Len(file)
  /\ Len(emitted) <= ConsumingIterations + 1

\* C22: the server framer terminates on every finite input: each iteration of
\* the replay loop leaves the loop or removes at least one byte from the
\* buffer (one for an unknown type, the message length otherwise), so for a
\* source of N bytes the loop ends after at most N consuming iterations and
\* the framed sequence is finite.
FramerTerminates ==
  /\ [][IterationConsumes]_vars
  /\ []IterationBound
  /\ <>ReplayOver

\* The loop has ended on a file of a stray byte and two messages after three
\* consuming iterations.
FramerTerminatesWitness ==
  /\ ReplayOver
  /\ file = StrayByte \o MsgS \o MsgD
  /\ messages_sent = 2
  /\ ConsumingIterations = 3
  /\ buffer = <<>>

\* -------------------------------------------------------------------------
\* C23
\* -------------------------------------------------------------------------

\* Record k of a paced file (every record is 12 bytes long).
FeedRecord(k) == SubSeq(file, 12 * k - 11, 12 * k)

\* The timestamp of record k is not above that of the record before it.
NotAfterPrevious(k) == k >= 2 /\ ~U64Gt(FeedStamps[k], FeedStamps[k - 1])

\* The sleeps the forward gap before record k allows: none, or the capped
\* scaled difference of the two timestamps.
ForwardSleeps(k) ==
  IF k >= 2 /\ U64Gt(FeedStamps[k], FeedStamps[k - 1])
       /\ speed_multiplier.mant > 0
    THEN {0} \cup CappedSleep(U64Sub(FeedStamps[k], FeedStamps[k - 1]),
                              speed_multiplier)
    ELSE {0}

\* C23: timestamps need not be non-decreasing: a message whose timestamp is
\* less than or equal to its predecessor's is still emitted, in order and
\* with no sleep, and current - previous is never computed for current below
\* previous, so that no wrapped difference becomes a sleep.
OutOfOrderNotSlept ==
  /\ \A k \in 1..Len(emitted) : emitted[k] = FeedRecord(k)
  /\ ReplayOver => Len(emitted) = Len(file) \div 12
  /\ \A k \in 1..Len(naps) :
       /\ NotAfterPrevious(k) => naps[k] = 0
       /\ naps[k] \in ForwardSleeps(k)

\* A file whose second timestamp is a millisecond below the first and whose
\* third is the first again has been replayed at speed 1: no sleep before the
\* second record, a millisecond before the third.
OutOfOrderNotSleptWitness ==
  /\ ReplayOver
  /\ speed_multiplier = Double(1, 0)
  /\ FeedStamps = <<TS_NEXT, TS_OPEN, TS_NEXT>>
  /\ Len(emitted) = 3
  /\ naps = <<0, 0, 1000000>>

\* -------------------------------------------------------------------------
\* Calls of the parser
\* -------------------------------------------------------------------------

\* The arrays of the parser's test: msgS and msgA, each passed with its
\* sizeof.
msgS == <<83, 0, 1, 0, 2, 0, 0, 0, 0, 0, 1, 79>>

msgA == <<65, 0, 1, 0, 2, 0, 0, 0, 0, 0, 1,
          0, 0, 0, 0, 0, 0, 0, 1,
          66,
          0, 0, 0, 100,
          65, 65, 80, 76, 32, 32, 32, 32,
          0, 1, 134, 160>>

\* The type bytes of the table.
TableTypes == {t \in 0..255 : message_length_by_type(t) # 0}

\* For every type of the table and for a type outside it: an array of len
\* bytes holding the start of a message of that type, for every len up to
\* one more than the type's length.
ParserInputs ==
  {[msg |-> msgS, len |-> Len(msgS)], [msg |-> msgA, len |-> Len(msgA)]}
    \cup
  UNION {{[msg |-> SubSeq(Message(t, TS_OPEN, 32) \o <<32>>, 1, len),
           len |-> len] : len \in 0..(message_length_by_type(t) + 1)} :
           t \in TableTypes \cup {255}}

InitCalls ==
  /\ InitServer({<<>>}, "off")
  /\ InitClient({<<>>}, "off")
  /\ InitParser(ParserInputs)

NextCalls == ParseItchMessage

SpecCalls == InitCalls /\ [][NextCalls]_vars

\* -------------------------------------------------------------------------
\* C24
\* -------------------------------------------------------------------------

\* C24: parse_itch_message(msg, len) reads only the bytes msg[0 .. len): for
\* every type of the table and every len, no decoder (the 8-byte read of the
\* header timestamp at offset 5 included) accesses an index at or beyond
\* len, in particular when len is the exact table length of the type.
ParserReadsInside ==
  ppc = "returned" => \A i \in accessed : i < plen

\* The reads stay inside for every call but that of a message whose decoder
\* accepts a len below 13: type 'S' with len 12.
ParserReadsInsideFrom13 ==
  (ppc = "returned" /\ ~(plen = 12 /\ pmsg[1] = 83)) =>
    \A i \in accessed : i < plen

\* The call of the test, parse_itch_message(msgS, sizeof(msgS)), reads
\* msgS[12].
ParserReadsPastTest ==
  (ppc = "returned" /\ pmsg = msgS /\ plen = 12) => 12 \in accessed

\* -------------------------------------------------------------------------
\* The server replaying a file longer than its buffer
\* -------------------------------------------------------------------------

\* A NOII message, the longest of the table (50 bytes).
MsgI == Message(73, TS_OPEN, 32)

\* Messages enough for the first read to fill the buffer and leave bytes in
\* the file for the refill at half capacity.
BigMessages == BUFFER_SIZE \div Len(MsgI) + 1

\* A stray byte, BigMessages NOII messages and the first 20 bytes of one
\* more.
BigFile ==
  [i \in 1..(1 + BigMessages * Len(MsgI) + 20) |->
     IF i = 1 THEN StrayByte[1] ELSE MsgI[((i - 2) % Len(MsgI)) + 1]]

\* The long file, or one of the short ones.
InitBig ==
  /\ InitServer({BigFile} \cup SeedFiles, "sleep")
  /\ InitClient({<<>>}, "off")
  /\ ParserOff

SpecBig == InitBig /\ [][ReplayThread]_vars

\* -------------------------------------------------------------------------
\* C25
\* -------------------------------------------------------------------------

\* buffer_used stays within the array, a type byte is read only from a
\* resident byte, a message is paced, broadcast and removed only when all of
\* it is resident, and the eight bytes read_timestamp copies from buffer + 5
\* lie in the array.
BufferBounds ==
  /\ 0 <= buffer_used /\ buffer_used <= BUFFER_SIZE
  /\ pc = "frame" => buffer_used >= 1
  /\ pc \in {"pace", "broadcast", "send", "consume"} =>
       /\ get_message_length(buffer[1]) >= 1
       /\ buffer_used >= get_message_length(buffer[1])
  /\ pc = "pace" => 5 + 8 <= BUFFER_SIZE

\* A read puts what it returns after the resident bytes and returns no more
\* than the room left; a removal takes bytes from the front only, and no
\* more than are resident.
BufferStep ==
  /\ fpos' # fpos =>
       /\ fpos' - fpos <= BUFFER_SIZE - buffer_used
       /\ Len(buffer') = buffer_used + (fpos' - fpos)
       /\ SubSeq(buffer', 1, buffer_used) = buffer
  /\ Len(buffer') < buffer_used =>
       /\ fpos' = fpos
       /\ buffer_used - Len(buffer') \in {1, get_message_length(buffer[1])}
       /\ buffer' = SubSeq(buffer, buffer_used - Len(buffer') + 1, buffer_used)

\* C25: in the server framer every access to the scratch buffer stays inside
\* it: 0 <= buffer_used <= BUFFER_SIZE in every reachable state, every
\* refill asks for at most BUFFER_SIZE - buffer_used bytes at offset
\* buffer_used, a message is consumed only when buffer_used is at least its
\* length (no memmove length underflows), and the 8-byte timestamp read at
\* offset 5 ends at or before BUFFER_SIZE.
BufferInside == []BufferBounds /\ [][BufferStep]_vars

\* The first read has filled the buffer and has left bytes in the file.
BufferInsideWitness ==
  /\ pc = "frame"
  /\ buffer_used = BUFFER_SIZE
  /\ fpos = BUFFER_SIZE
  /\ fpos < Len(file)

\* -------------------------------------------------------------------------
\* The client on streams of long messages, and its final statistics
\* -------------------------------------------------------------------------

\* A Reg SHO Restriction message 'Y' (20 bytes).
MsgY == Message(89, TS_OPEN, 32)

\* What the server may write: NOII, Reg SHO and System Event messages and
\* stray bytes, whole, in any order.
ClientItems == {MsgI, MsgY, MsgS, StrayByte}

ClientStreams ==
  {Flatten(ss) : ss \in UNION {[1..n -> ClientItems] : n \in 0..MaxItems}}

\* type_names[] of print_stats: the entries the designated initialisers
\* name, null pointers (here "") between them, and no entry after ['X'].
type_names ==
  [i \in 0..88 |->
     CASE i = 83 -> "System Event"
       [] i = 82 -> "Stock Directory"
       [] i = 72 -> "Trading Action"
       [] i = 65 -> "Add Order (No MPID)"
       [] i = 70 -> "Add Order (MPID)"
       [] i = 69 -> "Order Executed"
       [] i = 67 -> "Order Executed w/ Price"
       [] i = 88 -> "Order Cancel"
       [] i = 68 -> "Order Delete"
       [] i = 85 -> "Order Replace"
       [] i = 80 -> "Trade (Non-Cross)"
       [] i = 81 -> "Cross Trade"
       [] i = 66 -> "Broken Trade"
       [] OTHER  -> ""]

\* What the read of type_names[i] past the array may come to: a null
\* pointer, a pointer to some text, or a pointer printf faults on.
StaleNames == {"Unknown", "(stale)", "(fault)"}

\* Line 77: the name printed for index i.
TypeName(i, stale) ==
  IF i \in DOMAIN type_names
    THEN IF type_names[i] # "" THEN type_names[i] ELSE "Unknown"
    ELSE stale

\* The indices the loop of lines 75-82 prints a line for, in its order.
Counted(s) ==
  LET c == {i \in 0..255 : s.messages_by_type[i] > 0}
  IN  [k \in 1..Cardinality(c) |->
         CHOOSE i \in c : Cardinality({j \in c : j < i}) = k - 1]

\* Lines 75-82: one line for each type counted.
Breakdown(s, stale) ==
  [k \in DOMAIN Counted(s) |->
     [index |-> Counted(s)[k],
      name  |-> TypeName(Counted(s)[k], stale),
      count |-> s.messages_by_type[Counted(s)[k]]]]

\* Line 201: print_stats once the receive loop has ended.
ClientPrintStats ==
  /\ cpc = "done"
  /\ \E stale \in StaleNames : report' = Breakdown(stats, stale)
  /\ cpc' = "printed"
  /\ UNCHANGED <<wire, wpos, cbuffer, stats, cframed, cdiag, server_vars,
                 parser_vars>>

InitReceive ==
  /\ InitServer({<<>>}, "off")
  /\ InitClient(ClientStreams, "recv")
  /\ ParserOff

NextReceive ==
  \/ ClientRecv
  \/ ClientDrained
  \/ ClientUnknown
  \/ ClientIncomplete
  \/ ClientMessage
  \/ ClientPrintStats

SpecReceive == InitReceive /\ [][NextReceive]_vars

\* -------------------------------------------------------------------------
\* C26
\* -------------------------------------------------------------------------

\* The longest message of the table (50 bytes).
LongestMessage ==
  CHOOSE n \in {get_itch_message_length(b) : b \in 0..255} :
    \A b \in 0..255 : get_itch_message_length(b) <= n

\* Before each recv fewer bytes are resident than the longest message has,
\* and the capacity handed to recv is positive; the loop has ended only with
\* every byte of the stream received.
ResidentBounds ==
  /\ cpc = "recv" =>
       /\ Len(cbuffer) < LongestMessage
       /\ RecvCapacity(Len(cbuffer)) > 0
  /\ Len(cbuffer) < BUFFER_SIZE
  /\ cpc \in {"done", "printed"} => wpos = Len(wire)

\* A recv adds no more than the capacity it was given, and returns 0 only
\* when the server has closed the stream with nothing left in flight.
RecvStep ==
  cpc = "recv" =>
    /\ Len(cbuffer') <= Len(cbuffer) + RecvCapacity(Len(cbuffer))
    /\ Len(cbuffer') = Len(cbuffer) <=> cpc' = "done"
    /\ cpc' = "done" => wpos = Len(wire)

\* C26: in the client, after every pass of the inner parse loop the resident
\* byte count is smaller than the longest message length (50), so every recv
\* is called with a strictly positive capacity, a recv result of 0 always
\* means the server closed the stream, and the buffer can never fill up,
\* however the stream is chunked and however many unknown bytes it holds.
ResidentBelowLongest == []ResidentBounds /\ [][RecvStep]_vars

\* The client goes back to recv with 49 bytes of a NOII message resident,
\* after a stray byte.
ResidentBelowLongestWitness ==
  /\ cpc = "recv"
  /\ Len(cbuffer) = LongestMessage - 1
  /\ wpos < Len(wire)
  /\ \E k \in DOMAIN cdiag : cdiag[k][1] = "unknown_type"

\* -------------------------------------------------------------------------
\* C27
\* -------------------------------------------------------------------------

\* C27 (as the claim states it): for every message type the client has
\* counted, print_stats looks its name up at an index inside the type_names
\* array, so the breakdown never reads outside that array.
TypeNameInside ==
  cpc = "printed" =>
    \A k \in DOMAIN report : report[k].index \in DOMAIN type_names

\* Every type of the table but 'Y' (89) is looked up inside the array: a
\* counted type the initialisers name is printed with its name, any other
\* as "Unknown".
TypeNameInsideBelowY ==
  cpc = "printed" =>
    \A k \in DOMAIN report :
      report[k].index # 89 =>
        /\ report[k].index \in DOMAIN type_names
        /\ report[k].name \in {type_names[report[k].index], "Unknown"}
        /\ report[k].name # ""

\* The types of the table that have no entry in the array.
TypesPastTypeNames ==
  {b \in 0..255 : get_itch_message_length(b) # 0 /\ b \notin DOMAIN type_names}

\* 'Y' is the only type of the table past the end of the array, and every
\* counted type has one line in the breakdown, with its count.
BreakdownOfCounted ==
  cpc = "printed" =>
    /\ TypesPastTypeNames = {89}
    /\ {report[k].index : k \in DOMAIN report}
         = {b \in 0..255 : stats.messages_by_type[b] > 0}
    /\ \A k \in DOMAIN report :
         report[k].count = stats.messages_by_type[report[k].index]

\* -------------------------------------------------------------------------
\* C28
\* -------------------------------------------------------------------------

\* A slot marked active holds a socket that has not been closed.
ActiveSlotsOpen ==
  \A i \in Slots :
    clients[i].active # 0 => conn[clients[i].socket_fd].closes = 0

\* send is offered a message only on the socket of an active slot, and that
\* socket has not been closed.
SendOnOpenSocket ==
  \A fd \in DOMAIN conn :
    (fd \in DOMAIN conn' /\ conn'[fd].offered # conn[fd].offered) =>
      /\ conn[fd].closes = 0
      /\ \E i \in Slots : clients[i].active # 0 /\ clients[i].socket_fd = fd

\* No accepted socket has been closed more than once.
ClosedAtMostOnce == \A fd \in DOMAIN conn : conn[fd].closes <= 1

\* C28 (as the claim states it): across any sequence of attaches,
\* broadcasts, retirements, slot reuse and shutdown cleanup, a slot marked
\* active always holds a socket that has not been closed, send is only ever
\* called on such a socket, and no accepted socket is closed more than once.
SocketsOfActiveSlots ==
  /\ []ActiveSlotsOpen
  /\ [][SendOnOpenSocket]_vars
  /\ []ClosedAtMostOnce

\* Until main's cleanup closes the sockets, the three parts hold.
ActiveSlotsOpenBeforeCleanup ==
  (pc \notin {"closing", "done"} \/ bi = NextActive(clients, 0)) =>
    ActiveSlotsOpen

\* send is called on open sockets of active slots only, and no socket is
\* closed twice, the cleanup included.
SendsAndClosesInOrder ==
  /\ [][SendOnOpenSocket]_vars
  /\ []ClosedAtMostOnce

\* A slot has been retired by a failed send and taken again by a later
\* connection, and the cleanup has closed an active slot's socket.
CleanupClosedActiveSlot ==
  /\ pc = "done"
  /\ \E i \in Slots :
       /\ clients[i].active # 0
       /\ conn[clients[i].socket_fd].closes = 1
  /\ \E fd \in DOMAIN conn :
       /\ conn[fd].closes = 1
       /\ \A i \in Slots : clients[i].socket_fd # fd
       /\ conn[fd].offered # <<>>

=============================================================================
